---- MODULE Spec2Model ----
(***************************************************************************)
(* Foreign-function bridge shims of the Crystal cross-platform samples and  *)
(* the compiler's LLVM extension:                                          *)
(*   src/src/crystal/asyncify_helper.c          asyncify fiber switch      *)
(*   src/samples/cross_platform/objc_bridge.c   typed objc_msgSend         *)
(*                                              trampolines and helpers    *)
(*   src/samples/cross_platform/collection_bridge.c  selector cache,       *)
(*                                              collection marshaling,     *)
(*                                              ownership, JNI frames      *)
(*   src/src/llvm/ext/llvm_ext.cc               WebAssembly exception      *)
(*                                              handling switch            *)
(* The components share no state.  Each has its own next-state relation    *)
(* and specification (SpecAsync, SpecAbi, SpecSel, SpecEh, SpecColl); Spec *)
(* is their composition.  SpecSel has several threads in                   *)
(* collection_bridge.c and follows the selector cache; SpecColl has one    *)
(* thread and follows the objects, pools and frames.                       *)
(***************************************************************************)
EXTENDS Integers, Sequences, FiniteSets, TLC

VARIABLES
    \* ---- asyncify_helper.c: the host's asyncify runtime and the helper ----
    asyncify_state,   \* the host's state: 0 normal, 1 unwinding, 2 rewinding
    asyncify_data,    \* the data buffer the host was last given (0: none)
    a_op,             \* the exported function called last, with its inputs
    a_trace,          \* the asyncify_* runtime calls that call made, in order
    a_log,            \* every state-changing runtime call issued so far
    a_hist,           \* the exported functions that issued them, in order,
                      \*   each with the host's state before and after
    \* ---- objc_bridge.c: one caller of the bridge functions ----
    b_pc,             \* "idle", "dispatched" (inside objc_msgSend), "returned"
    b_op,             \* the bridge function called, with its parameters
    b_host,           \* the host lookups the call made, in order
    b_frames,         \* the register frame of each objc_msgSend invocation
    b_castRet,        \* the return type objc_msgSend was cast to
    b_out,            \* the registers the target method left on return
    b_result,         \* the value the bridge function returned
    \* ---- collection_bridge.c: threads calling the bridge functions ----
    cache,            \* the static SEL variables (0: not written)
    lookups,          \* number of sel_registerName calls made, per name
    t_fn,             \* the bridge function each thread is in ("none")
    t_todo,           \* the statements each thread's call has left
    t_calls,          \* number of calls each thread has made
    t_ens,            \* in ensure_selectors: the next assignment (0: not in)
    t_local,          \* the local SEL variable of each thread's call
    t_sel,            \* the selector each thread's call passed last
    s_crashed,        \* a send without selector aborted the process
    \* ---- llvm_ext.cc: the WebAssembly exception-handling switch ----
    e_version,        \* LLVM_VERSION_MAJOR and LLVM_VERSION_MINOR of the build
    e_tm,             \* each target machine: Options.ExceptionModel and
                      \*   MCAsmInfo's ExceptionsType
    e_enable,         \* cl::opt WasmEnableEH
    e_legacy,         \* cl::opt WasmUseLegacyEH
    e_last,           \* the target machine passed last, and how it and the
                      \*   WasmUseLegacyEH flag were before the call
    \* ---- collection_bridge.c: one thread calling the bridge functions ----
    k_platform,       \* the section compiled in: "apple", "android" ("": not built)
    k_calls,          \* number of calls the caller has made
    k_op,             \* the bridge function called last, with its arguments
    k_log,            \* the host calls that call made, in order
    k_ret,            \* the value that call returned
    k_entry,          \* the JNI local-frame depth at entry to that call
    k_drained,        \* the objects a pool released during that call, in order
    h_heap,           \* Objective-C objects: class, retain count, contents
    h_pools,          \* the stack of autorelease pools with their pending objects
    h_ready,          \* ensure_selectors has filled the selector cache
    j_depth,          \* number of JNI local frames pushed and not popped
    j_aborted         \* the JVM aborted the process inside a JNI call

avars == <<asyncify_state, asyncify_data, a_op, a_trace, a_log, a_hist>>

bvars == <<b_pc, b_op, b_host, b_frames, b_castRet, b_out, b_result>>

svars == <<cache, lookups, t_fn, t_todo, t_calls, t_ens, t_local, t_sel, s_crashed>>

evars == <<e_version, e_tm, e_enable, e_legacy, e_last>>

kvars == <<k_platform, k_calls, k_op, k_log, k_ret, k_entry, k_drained,
           h_heap, h_pools, h_ready, j_depth, j_aborted>>

vars == <<avars, bvars, svars, evars, kvars>>

(***************************************************************************)
(* Bounds of the model.                                                    *)
(***************************************************************************)
\* number of distinct unwind/rewind data buffers the callers pass
MaxData == 2
\* number of state-changing runtime calls a behaviour issues
MaxAsyncCalls == 4
\* number of distinct object pointers (and C strings) callers pass
MaxObj == 2
\* number of distinct double values callers pass and targets return
MaxDouble == 4
\* largest integer argument callers pass
MaxInt == 1
\* number of threads that call the collection bridge
NThreads == 2
\* number of bridge calls the threads make in all
MaxCalls == 2
\* largest count parameter (loop iterations) a caller passes
MaxCount == 1
\* newest LLVM major version built against (the four newest are modelled)
MaxLlvmMajor == 23
\* largest LLVM minor version
MaxLlvmMinor == 1
\* number of target machines the compiler creates
MaxTM == 2
\* number of Objective-C objects alive at one time
MaxHeap == 5
\* number of collection_bridge.c calls the caller makes
MaxCollCalls == 3
\* length of the C arrays the caller passes to the batch functions
MaxBatch == 2
\* number of autorelease pools the caller nests
MaxNest == 2
\* the selectors callers pass to the typed trampolines
CallerSelectors == {"frame", "setFrame:"}

(***************************************************************************)
(* asyncify_helper.c                                                       *)
(***************************************************************************)
\* asyncify states as wasm-opt's asyncify pass reports them
NORMAL == 0
UNWINDING == 1
REWINDING == 2

AsyncifyStates == {NORMAL, UNWINDING, REWINDING}
DataBuffers == 1..MaxData

\* One call of an imported runtime function; arg is 0 for a void call.
RtCall(f, arg) == [f |-> f, arg |-> arg]

\* The imported runtime (lines 26-39), as the asyncify pass defines it: each
\* start/stop function sets the state unconditionally, the start functions
\* also record the data buffer, asyncify_get_state changes nothing.
HostApply(h, c) ==
    CASE c.f = "asyncify_start_unwind" -> [state |-> UNWINDING, data |-> c.arg]
      [] c.f = "asyncify_stop_unwind"  -> [state |-> NORMAL,    data |-> h.data]
      [] c.f = "asyncify_start_rewind" -> [state |-> REWINDING, data |-> c.arg]
      [] c.f = "asyncify_stop_rewind"  -> [state |-> NORMAL,    data |-> h.data]
      [] OTHER                         -> h

RECURSIVE HostRun(_, _)
HostRun(h, trace) ==
    IF trace = <<>> THEN h ELSE HostRun(HostApply(h, Head(trace)), Tail(trace))

\* The calls of a trace that change the host's state.
StateChanging(trace) == SelectSeq(trace, LAMBDA c : c.f # "asyncify_get_state")

\* crystal_asyncify_switch with a wrong state test: unwinding instead of
\* rewinding.
crystal_asyncify_switch_WrongState(state, unwind_data) ==
    <<RtCall("asyncify_get_state", 0)>> \o
    (IF state = UNWINDING
        THEN <<RtCall("asyncify_stop_rewind", 0)>>
        ELSE <<RtCall("asyncify_start_unwind", unwind_data)>>)

\* void crystal_asyncify_switch(void *unwind_data): the runtime calls it
\* makes when asyncify_get_state() returns `state`.
crystal_asyncify_switch(state, unwind_data) ==
    <<RtCall("asyncify_get_state", 0)>> \o
    (IF state = REWINDING
        THEN <<RtCall("asyncify_stop_rewind", 0)>>
        ELSE <<RtCall("asyncify_start_unwind", unwind_data)>>)

crystal_stop_unwind == <<RtCall("asyncify_stop_unwind", 0)>>

\* A start_rewind wrapper that forwards to the wrong import.
crystal_start_rewind_AsUnwind(data) == <<RtCall("asyncify_start_unwind", data)>>

crystal_start_rewind(data) == <<RtCall("asyncify_start_rewind", data)>>

crystal_stop_rewind == <<RtCall("asyncify_stop_rewind", 0)>>

crystal_get_state == <<RtCall("asyncify_get_state", 0)>>

\* An exported helper function runs: the host executes its runtime calls.
AsyncRun(name, data, trace) ==
    /\ Len(a_log) + Len(StateChanging(trace)) <= MaxAsyncCalls
    /\ LET h == HostRun([state |-> asyncify_state, data |-> asyncify_data], trace)
       IN  /\ asyncify_state' = h.state
           /\ asyncify_data' = h.data
    /\ a_op' = [fn |-> name, data |-> data, entry |-> asyncify_state]
    /\ a_trace' = trace
    /\ a_log' = a_log \o StateChanging(trace)
    /\ a_hist' = IF StateChanging(trace) = <<>> THEN a_hist
                 ELSE Append(a_hist, [fn |-> name, entry |-> asyncify_state,
                                      exit |-> asyncify_state'])

Switch ==
    \E d \in DataBuffers :
        AsyncRun("crystal_asyncify_switch", d,
                 crystal_asyncify_switch(asyncify_state, d))

StopUnwind == AsyncRun("crystal_stop_unwind", 0, crystal_stop_unwind)

StartRewind ==
    \E d \in DataBuffers :
        AsyncRun("crystal_start_rewind", d, crystal_start_rewind(d))

StopRewind == AsyncRun("crystal_stop_rewind", 0, crystal_stop_rewind)

GetState == AsyncRun("crystal_get_state", 0, crystal_get_state)

AsyncInit ==
    /\ asyncify_state = NORMAL
    /\ asyncify_data = 0
    /\ a_op = [fn |-> "none", data |-> 0, entry |-> NORMAL]
    /\ a_trace = <<>>
    /\ a_log = <<>>
    /\ a_hist = <<>>

NextAsync == Switch \/ StopUnwind \/ StartRewind \/ StopRewind \/ GetState

(***************************************************************************)
(* objc_bridge.c: values, C types and the AArch64 calling convention       *)
(***************************************************************************)
\* x0-x7 and d0-d7 carry arguments
NumRegs == 8

\* A scalar value: a tag and a payload.  Unwritten marks a register slot a
\* call did not load (it holds whatever earlier computation left there).
Val(t, v) == [t |-> t, v |-> v]
Unwritten == Val("unwritten", 0)
NoValue == Val("void", 0)

\* Host runtime lookups (objc/runtime.h).  Selectors are interned: the token
\* is a function of the name alone.  A class is found by its name.
sel_registerName(str) == Val("SEL", str)
objc_getClass(str) == Val("Class", str)

\* typedef struct { double x, y; } CGPoint;
CGPoint == <<[field |-> "x", type |-> "double"], [field |-> "y", type |-> "double"]>>

\* typedef struct { double width, height; } CGSize;
CGSize == <<[field |-> "width", type |-> "double"], [field |-> "height", type |-> "double"]>>

\* CGRect declared with its members the other way round.
CGRect_SizeFirst == <<[field |-> "size", type |-> "CGSize"], [field |-> "origin", type |-> "CGPoint"]>>

\* typedef struct { CGPoint origin; CGSize size; } CGRect;
CGRect == <<[field |-> "origin", type |-> "CGPoint"], [field |-> "size", type |-> "CGSize"]>>

IsStruct(type) == type \in {"CGPoint", "CGSize", "CGRect"}

Layout(type) ==
    CASE type = "CGPoint" -> CGPoint
      [] type = "CGSize"  -> CGSize
      [] type = "CGRect"  -> CGRect

\* Number of scalar members of a type, nested structs included.
RECURSIVE SizeOfFields(_)
ScalarCount(type) == IF IsStruct(type) THEN SizeOfFields(Layout(type)) ELSE 1
SizeOfFields(fs) ==
    IF fs = <<>> THEN 0 ELSE ScalarCount(Head(fs).type) + SizeOfFields(Tail(fs))

\* The scalar members of a value in declaration (memory) order.
RECURSIVE FlattenFields(_, _)
Flatten(type, v) == IF IsStruct(type) THEN FlattenFields(Layout(type), v) ELSE <<v>>
FlattenFields(fs, v) ==
    IF fs = <<>> THEN <<>>
    ELSE Flatten(Head(fs).type, v[Head(fs).field]) \o FlattenFields(Tail(fs), v)

\* The offset (in scalars) of member k of a field list.
RECURSIVE OffsetOf(_, _)
OffsetOf(fs, k) == IF k = 1 THEN 0 ELSE OffsetOf(fs, k - 1) + ScalarCount(fs[k - 1].type)

\* The value of a type whose scalar members, in declaration order, are ds.
RECURSIVE Unflatten(_, _)
Unflatten(type, ds) ==
    IF ~IsStruct(type) THEN ds[1]
    ELSE LET fs == Layout(type)
             Index(name) == CHOOSE k \in 1..Len(fs) : fs[k].field = name
         IN  [name \in {fs[k].field : k \in 1..Len(fs)} |->
                 LET k == Index(name)
                 IN  Unflatten(fs[k].type,
                               SubSeq(ds, OffsetOf(fs, k) + 1,
                                          OffsetOf(fs, k) + ScalarCount(fs[k].type)))]

\* AAPCS64 argument classes: integer/pointer types go to the general
\* registers x0-x7; double goes to d0-d7; a struct of at most four doubles is
\* a Homogeneous Floating-point Aggregate and takes consecutive d registers.
IsIntegerClass(type) ==
    type \in {"void*", "SEL", "int", "long", "unsigned long", "const char*", "const void**"}
IsFloatClass(type) == type = "double"
IsHFA(type) == IsStruct(type) /\ ScalarCount(type) <= 4

EmptyFile == [i \in 1..NumRegs |-> Unwritten]
EmptyFrame == [x |-> EmptyFile, d |-> EmptyFile, stack |-> <<>>, ngrn |-> 0, nsrn |-> 0]

\* One argument allocated to the next free register of its class (ngrn, nsrn
\* are the next general and the next floating-point register numbers); when
\* the class has no register left the argument goes to the stack.
AllocArg(f, type, v) ==
    IF IsIntegerClass(type) THEN
        IF f.ngrn < NumRegs
            THEN [f EXCEPT !.x[f.ngrn + 1] = v, !.ngrn = @ + 1]
            ELSE [f EXCEPT !.stack = Append(@, v)]
    ELSE IF IsFloatClass(type) THEN
        IF f.nsrn < NumRegs
            THEN [f EXCEPT !.d[f.nsrn + 1] = v, !.nsrn = @ + 1]
            ELSE [f EXCEPT !.stack = Append(@, v)]
    ELSE \* HFA: all members in consecutive d registers, or all on the stack
        LET fl == Flatten(type, v)
        IN  IF f.nsrn + Len(fl) <= NumRegs
                THEN [f EXCEPT !.d = [i \in 1..NumRegs |->
                                         IF i > f.nsrn /\ i <= f.nsrn + Len(fl)
                                             THEN fl[i - f.nsrn] ELSE @[i]],
                               !.nsrn = @ + Len(fl)]
                ELSE [f EXCEPT !.nsrn = NumRegs, !.stack = @ \o fl]

RECURSIVE AllocArgs(_, _, _)
AllocArgs(f, types, vals) ==
    IF types = <<>> THEN f
    ELSE AllocArgs(AllocArg(f, Head(types), Head(vals)), Tail(types), Tail(vals))

\* The registers at entry to objc_msgSend when it is called through a
\* function pointer of parameter types `cast` with arguments `vals`.
Marshal(cast, vals) ==
    LET f == AllocArgs(EmptyFrame, cast, vals)
    IN  [x |-> f.x, d |-> f.d, stack |-> f.stack]

\* Register slot n of a bank (x0 is slot 0).
Slot(bank, n) == bank[n + 1]

\* The value a caller reads after the call returns, for a function pointer of
\* return type `type`: x0, d0, or the HFA packed in d0..d3.
ReadRet(type, out) ==
    IF type = "void" THEN NoValue
    ELSE IF IsIntegerClass(type) THEN Slot(out.x, 0)
    ELSE IF IsFloatClass(type) THEN Slot(out.d, 0)
    ELSE Unflatten(type, SubSeq(out.d, 1, ScalarCount(type)))

(***************************************************************************)
(* objc_bridge.c: the functions.  Each is the record of its C definition:  *)
(* return type, parameter types, the function called (objc_msgSend through *)
(* a function pointer cast with return type castRet and parameter types    *)
(* cast, or another bridge function) and the argument expressions of that  *)
(* call.                                                                   *)
(***************************************************************************)
Param(i) == [e |-> "param", i |-> i, s |-> ""]
GetClass(str) == [e |-> "objc_getClass", i |-> 0, s |-> str]
RegisterName(str) == [e |-> "sel_registerName", i |-> 0, s |-> str]

\* lines 70-72
objc_send ==
    [name    |-> "objc_send",
     ret     |-> "void*",
     params  |-> <<"void*", "SEL">>,
     callee  |-> "objc_msgSend",
     castRet |-> "void*",
     cast    |-> <<"void*", "SEL">>,
     args    |-> <<Param(1), Param(2)>>]

\* lines 78-80
objc_send_id ==
    [name    |-> "objc_send_id",
     ret     |-> "void*",
     params  |-> <<"void*", "SEL", "void*">>,
     callee  |-> "objc_msgSend",
     castRet |-> "void*",
     cast    |-> <<"void*", "SEL", "void*">>,
     args    |-> <<Param(1), Param(2), Param(3)>>]

\* lines 85-87
objc_send_id_id ==
    [name    |-> "objc_send_id_id",
     ret     |-> "void*",
     params  |-> <<"void*", "SEL", "void*", "void*">>,
     callee  |-> "objc_msgSend",
     castRet |-> "void*",
     cast    |-> <<"void*", "SEL", "void*", "void*">>,
     args    |-> <<Param(1), Param(2), Param(3), Param(4)>>]

\* lines 91-93
objc_send_id_id_id ==
    [name    |-> "objc_send_id_id_id",
     ret     |-> "void*",
     params  |-> <<"void*", "SEL", "void*", "void*", "void*">>,
     callee  |-> "objc_msgSend",
     castRet |-> "void*",
     cast    |-> <<"void*", "SEL", "void*", "void*", "void*">>,
     args    |-> <<Param(1), Param(2), Param(3), Param(4), Param(5)>>]

\* lines 98-100
objc_send_bool ==
    [name    |-> "objc_send_bool",
     ret     |-> "void",
     params  |-> <<"void*", "SEL", "int">>,
     callee  |-> "objc_msgSend",
     castRet |-> "void",
     cast    |-> <<"void*", "SEL", "int">>,
     args    |-> <<Param(1), Param(2), Param(3)>>]

\* lines 106-108
objc_send_long ==
    [name    |-> "objc_send_long",
     ret     |-> "void*",
     params  |-> <<"void*", "SEL", "long">>,
     callee  |-> "objc_msgSend",
     castRet |-> "void*",
     cast    |-> <<"void*", "SEL", "long">>,
     args    |-> <<Param(1), Param(2), Param(3)>>]


\* objc_send_ulong written with the cast of objc_send_long.
objc_send_ulong_LongCast ==
    [name    |-> "objc_send_ulong",
     ret     |-> "void*",
     params  |-> <<"void*", "SEL", "unsigned long">>,
     callee  |-> "objc_msgSend",
     castRet |-> "void*",
     cast    |-> <<"void*", "SEL", "long">>,
     args    |-> <<Param(1), Param(2), Param(3)>>]

\* lines 112-114
objc_send_ulong ==
    [name    |-> "objc_send_ulong",
     ret     |-> "void*",
     params  |-> <<"void*", "SEL", "unsigned long">>,
     callee  |-> "objc_msgSend",
     castRet |-> "void*",
     cast    |-> <<"void*", "SEL", "unsigned long">>,
     args    |-> <<Param(1), Param(2), Param(3)>>]

\* lines 118-120
objc_send_int ==
    [name    |-> "objc_send_int",
     ret     |-> "void*",
     params  |-> <<"void*", "SEL", "int">>,
     callee  |-> "objc_msgSend",
     castRet |-> "void*",
     cast    |-> <<"void*", "SEL", "int">>,
     args    |-> <<Param(1), Param(2), Param(3)>>]

\* lines 125-127
objc_send_void_id ==
    [name    |-> "objc_send_void_id",
     ret     |-> "void",
     params  |-> <<"void*", "SEL", "void*">>,
     callee  |-> "objc_msgSend",
     castRet |-> "void",
     cast    |-> <<"void*", "SEL", "void*">>,
     args    |-> <<Param(1), Param(2), Param(3)>>]

\* lines 131-133
objc_send_sel ==
    [name    |-> "objc_send_sel",
     ret     |-> "void",
     params  |-> <<"void*", "SEL", "SEL">>,
     callee  |-> "objc_msgSend",
     castRet |-> "void",
     cast    |-> <<"void*", "SEL", "SEL">>,
     args    |-> <<Param(1), Param(2), Param(3)>>]

\* objc_send_id_sel with its two selectors exchanged in the call.
objc_send_id_sel_Exchanged ==
    [name    |-> "objc_send_id_sel",
     ret     |-> "void",
     params  |-> <<"void*", "SEL", "void*", "SEL">>,
     callee  |-> "objc_msgSend",
     castRet |-> "void",
     cast    |-> <<"void*", "SEL", "void*", "SEL">>,
     args    |-> <<Param(1), Param(4), Param(3), Param(2)>>]

\* lines 137-139
objc_send_id_sel ==
    [name    |-> "objc_send_id_sel",
     ret     |-> "void",
     params  |-> <<"void*", "SEL", "void*", "SEL">>,
     callee  |-> "objc_msgSend",
     castRet |-> "void",
     cast    |-> <<"void*", "SEL", "void*", "SEL">>,
     args    |-> <<Param(1), Param(2), Param(3), Param(4)>>]

\* lines 143-145
objc_send_id_sel_ulong ==
    [name    |-> "objc_send_id_sel_ulong",
     ret     |-> "void",
     params  |-> <<"void*", "SEL", "void*", "SEL", "unsigned long">>,
     callee  |-> "objc_msgSend",
     castRet |-> "void",
     cast    |-> <<"void*", "SEL", "void*", "SEL", "unsigned long">>,
     args    |-> <<Param(1), Param(2), Param(3), Param(4), Param(5)>>]

\* lines 149-151
objc_send_id_long ==
    [name    |-> "objc_send_id_long",
     ret     |-> "void*",
     params  |-> <<"void*", "SEL", "void*", "long">>,
     callee  |-> "objc_msgSend",
     castRet |-> "void*",
     cast    |-> <<"void*", "SEL", "void*", "long">>,
     args    |-> <<Param(1), Param(2), Param(3), Param(4)>>]

\* lines 164-166
objc_send_1d ==
    [name    |-> "objc_send_1d",
     ret     |-> "void",
     params  |-> <<"void*", "SEL", "double">>,
     callee  |-> "objc_msgSend",
     castRet |-> "void",
     cast    |-> <<"void*", "SEL", "double">>,
     args    |-> <<Param(1), Param(2), Param(3)>>]

\* lines 173-175
objc_send_1d_ret_id ==
    [name    |-> "objc_send_1d_ret_id",
     ret     |-> "void*",
     params  |-> <<"void*", "SEL", "double">>,
     callee  |-> "objc_msgSend",
     castRet |-> "void*",
     cast    |-> <<"void*", "SEL", "double">>,
     args    |-> <<Param(1), Param(2), Param(3)>>]

\* lines 183-185
objc_send_2d_ret_id ==
    [name    |-> "objc_send_2d_ret_id",
     ret     |-> "void*",
     params  |-> <<"void*", "SEL", "double", "double">>,
     callee  |-> "objc_msgSend",
     castRet |-> "void*",
     cast    |-> <<"void*", "SEL", "double", "double">>,
     args    |-> <<Param(1), Param(2), Param(3), Param(4)>>]

\* lines 192-194
objc_send_3d_ret_id ==
    [name    |-> "objc_send_3d_ret_id",
     ret     |-> "void*",
     params  |-> <<"void*", "SEL", "double", "double", "double">>,
     callee  |-> "objc_msgSend",
     castRet |-> "void*",
     cast    |-> <<"void*", "SEL", "double", "double", "double">>,
     args    |-> <<Param(1), Param(2), Param(3), Param(4), Param(5)>>]

\* lines 205-208
objc_send_4d_ret_id ==
    [name    |-> "objc_send_4d_ret_id",
     ret     |-> "void*",
     params  |-> <<"void*", "SEL", "double", "double", "double", "double">>,
     callee  |-> "objc_msgSend",
     castRet |-> "void*",
     cast    |-> <<"void*", "SEL", "double", "double", "double", "double">>,
     args    |-> <<Param(1), Param(2), Param(3), Param(4), Param(5), Param(6)>>]

\* lines 213-215
objc_send_2d ==
    [name    |-> "objc_send_2d",
     ret     |-> "void",
     params  |-> <<"void*", "SEL", "double", "double">>,
     callee  |-> "objc_msgSend",
     castRet |-> "void",
     cast    |-> <<"void*", "SEL", "double", "double">>,
     args    |-> <<Param(1), Param(2), Param(3), Param(4)>>]

\* objc_send_id_1d_ret_id with the double left out of the cast and the call.
objc_send_id_1d_ret_id_NoDouble ==
    [name    |-> "objc_send_id_1d_ret_id",
     ret     |-> "void*",
     params  |-> <<"void*", "SEL", "void*", "double">>,
     callee  |-> "objc_msgSend",
     castRet |-> "void*",
     cast    |-> <<"void*", "SEL", "void*">>,
     args    |-> <<Param(1), Param(2), Param(3)>>]

\* lines 221-223
objc_send_id_1d_ret_id ==
    [name    |-> "objc_send_id_1d_ret_id",
     ret     |-> "void*",
     params  |-> <<"void*", "SEL", "void*", "double">>,
     callee  |-> "objc_msgSend",
     castRet |-> "void*",
     cast    |-> <<"void*", "SEL", "void*", "double">>,
     args    |-> <<Param(1), Param(2), Param(3), Param(4)>>]

\* lines 240-242
objc_send_rect ==
    [name    |-> "objc_send_rect",
     ret     |-> "void*",
     params  |-> <<"void*", "SEL", "CGRect">>,
     callee  |-> "objc_msgSend",
     castRet |-> "void*",
     cast    |-> <<"void*", "SEL", "CGRect">>,
     args    |-> <<Param(1), Param(2), Param(3)>>]

\* lines 246-248
objc_send_rect_void ==
    [name    |-> "objc_send_rect_void",
     ret     |-> "void",
     params  |-> <<"void*", "SEL", "CGRect">>,
     callee  |-> "objc_msgSend",
     castRet |-> "void",
     cast    |-> <<"void*", "SEL", "CGRect">>,
     args    |-> <<Param(1), Param(2), Param(3)>>]

\* objc_send_rect_ulong_ulong_bool passing b before a.
objc_send_rect_ulong_ulong_bool_Swapped ==
    [name    |-> "objc_send_rect_ulong_ulong_bool",
     ret     |-> "void*",
     params  |-> <<"void*", "SEL", "CGRect", "unsigned long", "unsigned long", "int">>,
     callee  |-> "objc_msgSend",
     castRet |-> "void*",
     cast    |-> <<"void*", "SEL", "CGRect", "unsigned long", "unsigned long", "int">>,
     args    |-> <<Param(1), Param(2), Param(3), Param(5), Param(4), Param(6)>>]

\* lines 253-257
objc_send_rect_ulong_ulong_bool ==
    [name    |-> "objc_send_rect_ulong_ulong_bool",
     ret     |-> "void*",
     params  |-> <<"void*", "SEL", "CGRect", "unsigned long", "unsigned long", "int">>,
     callee  |-> "objc_msgSend",
     castRet |-> "void*",
     cast    |-> <<"void*", "SEL", "CGRect", "unsigned long", "unsigned long", "int">>,
     args    |-> <<Param(1), Param(2), Param(3), Param(4), Param(5), Param(6)>>]

\* lines 261-263
objc_send_point ==
    [name    |-> "objc_send_point",
     ret     |-> "void*",
     params  |-> <<"void*", "SEL", "CGPoint">>,
     callee  |-> "objc_msgSend",
     castRet |-> "void*",
     cast    |-> <<"void*", "SEL", "CGPoint">>,
     args    |-> <<Param(1), Param(2), Param(3)>>]

\* lines 267-269
objc_send_point_void ==
    [name    |-> "objc_send_point_void",
     ret     |-> "void",
     params  |-> <<"void*", "SEL", "CGPoint">>,
     callee  |-> "objc_msgSend",
     castRet |-> "void",
     cast    |-> <<"void*", "SEL", "CGPoint">>,
     args    |-> <<Param(1), Param(2), Param(3)>>]

\* lines 273-275
objc_send_size_void ==
    [name    |-> "objc_send_size_void",
     ret     |-> "void",
     params  |-> <<"void*", "SEL", "CGSize">>,
     callee  |-> "objc_msgSend",
     castRet |-> "void",
     cast    |-> <<"void*", "SEL", "CGSize">>,
     args    |-> <<Param(1), Param(2), Param(3)>>]

\* lines 279-281
objc_send_ret_rect ==
    [name    |-> "objc_send_ret_rect",
     ret     |-> "CGRect",
     params  |-> <<"void*", "SEL">>,
     callee  |-> "objc_msgSend",
     castRet |-> "CGRect",
     cast    |-> <<"void*", "SEL">>,
     args    |-> <<Param(1), Param(2)>>]

\* lines 285-287
objc_send_ret_point ==
    [name    |-> "objc_send_ret_point",
     ret     |-> "CGPoint",
     params  |-> <<"void*", "SEL">>,
     callee  |-> "objc_msgSend",
     castRet |-> "CGPoint",
     cast    |-> <<"void*", "SEL">>,
     args    |-> <<Param(1), Param(2)>>]

\* lines 291-293
objc_send_ret_size ==
    [name    |-> "objc_send_ret_size",
     ret     |-> "CGSize",
     params  |-> <<"void*", "SEL">>,
     callee  |-> "objc_msgSend",
     castRet |-> "CGSize",
     cast    |-> <<"void*", "SEL">>,
     args    |-> <<Param(1), Param(2)>>]

\* lines 297-299
objc_send_ret_double ==
    [name    |-> "objc_send_ret_double",
     ret     |-> "double",
     params  |-> <<"void*", "SEL">>,
     callee  |-> "objc_msgSend",
     castRet |-> "double",
     cast    |-> <<"void*", "SEL">>,
     args    |-> <<Param(1), Param(2)>>]

\* lines 303-305
objc_send_ret_long ==
    [name    |-> "objc_send_ret_long",
     ret     |-> "long",
     params  |-> <<"void*", "SEL">>,
     callee  |-> "objc_msgSend",
     castRet |-> "long",
     cast    |-> <<"void*", "SEL">>,
     args    |-> <<Param(1), Param(2)>>]

\* lines 309-311
objc_send_ret_bool ==
    [name    |-> "objc_send_ret_bool",
     ret     |-> "int",
     params  |-> <<"void*", "SEL">>,
     callee  |-> "objc_msgSend",
     castRet |-> "int",
     cast    |-> <<"void*", "SEL">>,
     args    |-> <<Param(1), Param(2)>>]

\* lines 323-327
nsstring_from_cstr ==
    [name    |-> "nsstring_from_cstr",
     ret     |-> "void*",
     params  |-> <<"const char*">>,
     callee  |-> "objc_msgSend",
     castRet |-> "void*",
     cast    |-> <<"void*", "SEL", "const char*">>,
     args    |-> <<GetClass("NSString"), RegisterName("stringWithUTF8String:"), Param(1)>>]

\* nscolor_rgba through a cast with a single double: the bug the file header
\* describes (only d0 is loaded).
nscolor_rgba_OneDouble ==
    [name    |-> "nscolor_rgba",
     ret     |-> "void*",
     params  |-> <<"double", "double", "double", "double">>,
     callee  |-> "objc_msgSend",
     castRet |-> "void*",
     cast    |-> <<"void*", "SEL", "double">>,
     args    |-> <<GetClass("NSColor"), RegisterName("colorWithRed:green:blue:alpha:"), Param(1)>>]

\* lines 332-337
nscolor_rgba ==
    [name    |-> "nscolor_rgba",
     ret     |-> "void*",
     params  |-> <<"double", "double", "double", "double">>,
     callee  |-> "objc_msgSend",
     castRet |-> "void*",
     cast    |-> <<"void*", "SEL", "double", "double", "double", "double">>,
     args    |-> <<GetClass("NSColor"), RegisterName("colorWithRed:green:blue:alpha:"), Param(1), Param(2), Param(3), Param(4)>>]

\* lines 340-345
nscolor_srgba ==
    [name    |-> "nscolor_srgba",
     ret     |-> "void*",
     params  |-> <<"double", "double", "double", "double">>,
     callee  |-> "objc_msgSend",
     castRet |-> "void*",
     cast    |-> <<"void*", "SEL", "double", "double", "double", "double">>,
     args    |-> <<GetClass("NSColor"), RegisterName("colorWithSRGBRed:green:blue:alpha:"), Param(1), Param(2), Param(3), Param(4)>>]

\* lines 348-353
nscolor_hsba ==
    [name    |-> "nscolor_hsba",
     ret     |-> "void*",
     params  |-> <<"double", "double", "double", "double">>,
     callee  |-> "objc_msgSend",
     castRet |-> "void*",
     cast    |-> <<"void*", "SEL", "double", "double", "double", "double">>,
     args    |-> <<GetClass("NSColor"), RegisterName("colorWithHue:saturation:brightness:alpha:"), Param(1), Param(2), Param(3), Param(4)>>]

\* lines 356-361
nscolor_white_alpha ==
    [name    |-> "nscolor_white_alpha",
     ret     |-> "void*",
     params  |-> <<"double", "double">>,
     callee  |-> "objc_msgSend",
     castRet |-> "void*",
     cast    |-> <<"void*", "SEL", "double", "double">>,
     args    |-> <<GetClass("NSColor"), RegisterName("colorWithWhite:alpha:"), Param(1), Param(2)>>]

\* lines 366-370
nsfont_system ==
    [name    |-> "nsfont_system",
     ret     |-> "void*",
     params  |-> <<"double">>,
     callee  |-> "objc_msgSend",
     castRet |-> "void*",
     cast    |-> <<"void*", "SEL", "double">>,
     args    |-> <<GetClass("NSFont"), RegisterName("systemFontOfSize:"), Param(1)>>]

\* lines 373-377
nsfont_bold_system ==
    [name    |-> "nsfont_bold_system",
     ret     |-> "void*",
     params  |-> <<"double">>,
     callee  |-> "objc_msgSend",
     castRet |-> "void*",
     cast    |-> <<"void*", "SEL", "double">>,
     args    |-> <<GetClass("NSFont"), RegisterName("boldSystemFontOfSize:"), Param(1)>>]

\* nsfont_system_weight through the one-double cast of nsfont_system.
nsfont_system_weight_NoWeight ==
    [name    |-> "nsfont_system_weight",
     ret     |-> "void*",
     params  |-> <<"double", "double">>,
     callee  |-> "objc_msgSend",
     castRet |-> "void*",
     cast    |-> <<"void*", "SEL", "double">>,
     args    |-> <<GetClass("NSFont"), RegisterName("systemFontOfSize:weight:"), Param(1)>>]

\* lines 380-384
nsfont_system_weight ==
    [name    |-> "nsfont_system_weight",
     ret     |-> "void*",
     params  |-> <<"double", "double">>,
     callee  |-> "objc_msgSend",
     castRet |-> "void*",
     cast    |-> <<"void*", "SEL", "double", "double">>,
     args    |-> <<GetClass("NSFont"), RegisterName("systemFontOfSize:weight:"), Param(1), Param(2)>>]

\* lines 387-391
nsfont_monospaced_system ==
    [name    |-> "nsfont_monospaced_system",
     ret     |-> "void*",
     params  |-> <<"double", "double">>,
     callee  |-> "objc_msgSend",
     castRet |-> "void*",
     cast    |-> <<"void*", "SEL", "double", "double">>,
     args    |-> <<GetClass("NSFont"), RegisterName("monospacedSystemFontOfSize:weight:"), Param(1), Param(2)>>]

\* lines 394-398
nsfont_monospaced_digit ==
    [name    |-> "nsfont_monospaced_digit",
     ret     |-> "void*",
     params  |-> <<"double", "double">>,
     callee  |-> "objc_msgSend",
     castRet |-> "void*",
     cast    |-> <<"void*", "SEL", "double", "double">>,
     args    |-> <<GetClass("NSFont"), RegisterName("monospacedDigitSystemFontOfSize:weight:"), Param(1), Param(2)>>]

\* lines 401-405
nsfont_named ==
    [name    |-> "nsfont_named",
     ret     |-> "void*",
     params  |-> <<"void*", "double">>,
     callee  |-> "objc_msgSend",
     castRet |-> "void*",
     cast    |-> <<"void*", "SEL", "void*", "double">>,
     args    |-> <<GetClass("NSFont"), RegisterName("fontWithName:size:"), Param(1), Param(2)>>]

\* lines 410-412
objc_get_frame ==
    [name    |-> "objc_get_frame",
     ret     |-> "CGRect",
     params  |-> <<"void*">>,
     callee  |-> "objc_msgSend",
     castRet |-> "CGRect",
     cast    |-> <<"void*", "SEL">>,
     args    |-> <<Param(1), RegisterName("frame")>>]

\* lines 415-417
objc_get_bounds ==
    [name    |-> "objc_get_bounds",
     ret     |-> "CGRect",
     params  |-> <<"void*">>,
     callee  |-> "objc_msgSend",
     castRet |-> "CGRect",
     cast    |-> <<"void*", "SEL">>,
     args    |-> <<Param(1), RegisterName("bounds")>>]

\* lines 420-422
objc_set_frame ==
    [name    |-> "objc_set_frame",
     ret     |-> "void",
     params  |-> <<"void*", "CGRect">>,
     callee  |-> "objc_msgSend",
     castRet |-> "void",
     cast    |-> <<"void*", "SEL", "CGRect">>,
     args    |-> <<Param(1), RegisterName("setFrame:"), Param(2)>>]

\* lines 426-429
objc_add_subview ==
    [name    |-> "objc_add_subview",
     ret     |-> "void",
     params  |-> <<"void*", "void*">>,
     callee  |-> "objc_msgSend",
     castRet |-> "void",
     cast    |-> <<"void*", "SEL", "void*">>,
     args    |-> <<Param(1), RegisterName("addSubview:"), Param(2)>>]

\* lines 431-434
objc_set_autoresize ==
    [name    |-> "objc_set_autoresize",
     ret     |-> "void",
     params  |-> <<"void*", "unsigned long">>,
     callee  |-> "objc_msgSend",
     castRet |-> "void",
     cast    |-> <<"void*", "SEL", "unsigned long">>,
     args    |-> <<Param(1), RegisterName("setAutoresizingMask:"), Param(2)>>]

\* objc_send_double sending on its own, through a cast without the double.
objc_send_double_NoDouble ==
    [name    |-> "objc_send_double",
     ret     |-> "void",
     params  |-> <<"void*", "SEL", "double">>,
     callee  |-> "objc_msgSend",
     castRet |-> "void",
     cast    |-> <<"void*", "SEL">>,
     args    |-> <<Param(1), Param(2)>>]

\* lines 446-448
objc_send_double ==
    [name    |-> "objc_send_double",
     ret     |-> "void",
     params  |-> <<"void*", "SEL", "double">>,
     callee  |-> "objc_send_1d",
     castRet |-> "",
     cast    |-> <<>>,
     args    |-> <<Param(1), Param(2), Param(3)>>]

\* lines 451-453
objc_send_double_ret_id ==
    [name    |-> "objc_send_double_ret_id",
     ret     |-> "void*",
     params  |-> <<"void*", "SEL", "double">>,
     callee  |-> "objc_send_1d_ret_id",
     castRet |-> "",
     cast    |-> <<>>,
     args    |-> <<Param(1), Param(2), Param(3)>>]

\* The functions of objc_bridge.c, by kind.
Trampolines ==
    {objc_send, objc_send_id, objc_send_id_id, objc_send_id_id_id, objc_send_bool,
     objc_send_long, objc_send_ulong, objc_send_int, objc_send_void_id, objc_send_sel,
     objc_send_id_sel, objc_send_id_sel_ulong, objc_send_id_long,
     objc_send_1d, objc_send_1d_ret_id, objc_send_2d_ret_id, objc_send_3d_ret_id,
     objc_send_4d_ret_id, objc_send_2d, objc_send_id_1d_ret_id,
     objc_send_rect, objc_send_rect_void, objc_send_rect_ulong_ulong_bool,
     objc_send_point, objc_send_point_void, objc_send_size_void,
     objc_send_ret_rect, objc_send_ret_point, objc_send_ret_size,
     objc_send_ret_double, objc_send_ret_long, objc_send_ret_bool}

Helpers ==
    {nsstring_from_cstr, nscolor_rgba, nscolor_srgba, nscolor_hsba, nscolor_white_alpha,
     nsfont_system, nsfont_bold_system, nsfont_system_weight, nsfont_monospaced_system,
     nsfont_monospaced_digit, nsfont_named, objc_get_frame, objc_get_bounds,
     objc_set_frame, objc_add_subview, objc_set_autoresize}

Aliases == {objc_send_double, objc_send_double_ret_id}

Catalogue == Trampolines \cup Helpers \cup Aliases

ByName(name) == CHOOSE w \in Catalogue : w.name = name

(***************************************************************************)
(* objc_bridge.c: one call of a bridge function                            *)
(***************************************************************************)
\* The values a caller can pass for a parameter of a C type.
RECURSIVE ValuesOf(_)
ValuesOf(type) ==
    CASE type = "void*"         -> {Val("id", i) : i \in 1..MaxObj}
      [] type = "SEL"           -> {sel_registerName(s) : s \in CallerSelectors}
      [] type = "const char*"   -> {Val("cstr", i) : i \in 1..MaxObj}
      [] type = "double"        -> {Val("double", i) : i \in 1..MaxDouble}
      [] type = "int"           -> {Val("int", i) : i \in 0..MaxInt}
      [] type = "long"          -> {Val("long", i) : i \in 0..MaxInt}
      [] type = "unsigned long" -> {Val("ulong", i) : i \in 0..MaxInt}
      [] IsStruct(type)         ->
            {Unflatten(type, ds) : ds \in [1..ScalarCount(type) -> ValuesOf("double")]}

RECURSIVE ArgVectors(_)
ArgVectors(types) ==
    IF types = <<>> THEN {<<>>}
    ELSE {<<v>> \o rest : v \in ValuesOf(Head(types)), rest \in ArgVectors(Tail(types))}

\* The value of one argument expression of a call, given the parameters a.
Eval(e, a) ==
    CASE e.e = "param"            -> a[e.i]
      [] e.e = "objc_getClass"    -> objc_getClass(e.s)
      [] e.e = "sel_registerName" -> sel_registerName(e.s)

\* The host lookups a call's argument expressions perform, in order.
Lookups(w) ==
    LET Calls(e) == IF e.e = "param" THEN <<>> ELSE <<[f |-> e.e, s |-> e.s]>>
        RECURSIVE Cat(_)
        Cat(es) == IF es = <<>> THEN <<>> ELSE Calls(Head(es)) \o Cat(Tail(es))
    IN  Cat(w.args)

\* What running function w with parameters a does up to the entry of the
\* dispatch primitive: the host lookups made, the register frame of every
\* objc_msgSend invocation, and the return type objc_msgSend was cast to.
RECURSIVE Run(_, _)
Run(w, a) ==
    LET vals == [i \in 1..Len(w.args) |-> Eval(w.args[i], a)]
    IN  IF w.callee = "objc_msgSend"
            THEN [host    |-> Lookups(w),
                  frames  |-> <<Marshal(w.cast, vals)>>,
                  castRet |-> w.castRet]
            ELSE LET r == Run(ByName(w.callee), vals)
                 IN  [r EXCEPT !.host = Lookups(w) \o @]

\* The register files a target method can leave when it returns a value of
\* `type`: x0 for integer/pointer types, d0 for double, d0..d(n-1) for an HFA
\* of n doubles (v0..v(n-1) in that order), nothing for void.
TargetReturns(type) ==
    IF type = "void" THEN {[x |-> EmptyFile, d |-> EmptyFile]}
    ELSE IF IsIntegerClass(type) THEN
        {[x |-> [EmptyFile EXCEPT ![1] = v], d |-> EmptyFile] : v \in ValuesOf(type)}
    ELSE
        {[x |-> EmptyFile,
          d |-> [i \in 1..NumRegs |-> IF i <= ScalarCount(type) THEN vs[i] ELSE Unwritten]] :
            vs \in [1..ScalarCount(type) -> ValuesOf("double")]}

\* A caller (idle) enters bridge function w with parameters a: the function
\* runs up to the entry of the dispatch primitive.
Call(w, a) ==
    /\ LET r == Run(w, a)
       IN  /\ b_host' = r.host
           /\ b_frames' = r.frames
           /\ b_castRet' = r.castRet
    /\ b_op' = [fn |-> w.name, args |-> a]
    /\ b_pc' = "dispatched"
    /\ UNCHANGED <<b_out, b_result>>

TrampolineCall ==
    /\ b_pc = "idle"
    /\ \E w \in Trampolines : \E a \in ArgVectors(w.params) : Call(w, a)

HelperCall ==
    /\ b_pc = "idle"
    /\ \E w \in Helpers : \E a \in ArgVectors(w.params) : Call(w, a)

AliasCall ==
    /\ b_pc = "idle"
    /\ \E w \in Aliases : \E a \in ArgVectors(w.params) : Call(w, a)

\* The target method returns; the bridge function reads the result through
\* the cast's return type and returns it (a void function returns nothing).
TargetReturn ==
    /\ b_pc = "dispatched"
    /\ \E out \in TargetReturns(b_castRet) :
        /\ b_out' = out
        /\ b_result' = IF ByName(b_op.fn).ret = "void" THEN NoValue
                       ELSE ReadRet(b_castRet, out)
    /\ b_pc' = "returned"
    /\ UNCHANGED <<b_op, b_host, b_frames, b_castRet>>

\* The caller takes the result and goes on; nothing of the call remains.
CallerResumes ==
    /\ b_pc = "returned"
    /\ b_pc' = "idle"
    /\ b_op' = [fn |-> "none", args |-> <<>>]
    /\ b_host' = <<>>
    /\ b_frames' = <<>>
    /\ b_castRet' = "void"
    /\ b_out' = [x |-> EmptyFile, d |-> EmptyFile]
    /\ b_result' = NoValue

AbiInit ==
    /\ b_pc = "idle"
    /\ b_op = [fn |-> "none", args |-> <<>>]
    /\ b_host = <<>>
    /\ b_frames = <<>>
    /\ b_castRet = "void"
    /\ b_out = [x |-> EmptyFile, d |-> EmptyFile]
    /\ b_result = NoValue

NextAbi == TrampolineCall \/ HelperCall \/ AliasCall \/ TargetReturn \/ CallerResumes

(***************************************************************************)
(* collection_bridge.c: the selector cache and the functions that use it   *)
(***************************************************************************)
\* static SEL sel_... = 0: a cache entry that has not been written
NullSel == Val("SEL", "")

\* lines 49-69: static SEL sel_... = 0;  (the cache variables)
CacheVars ==
    <<"sel_alloc",
      "sel_init",
      "sel_autorelease",
      "sel_retain",
      "sel_release",
      "sel_count",
      "sel_objectAtIndex",
      "sel_addObject",
      "sel_removeObjectAtIndex",
      "sel_insertObjectAtIndex",
      "sel_replaceObjectAtIndex",
      "sel_removeAllObjects",
      "sel_setObjectForKey",
      "sel_objectForKey",
      "sel_allKeys",
      "sel_stringWithUTF8String",
      "sel_UTF8String",
      "sel_length",
      "sel_lengthOfBytesUsingEnc",
      "sel_initWithCapacity",
      "sel_arrayWithObjectsCount">>

\* lines 71-94: if (sel_alloc) return; then the 21 assignments, in order
ensure_selectors_NoGuard ==
    [guard  |-> "",
     stores |-> <<[var |-> "sel_alloc", name |-> "alloc"],
                 [var |-> "sel_init", name |-> "init"],
                 [var |-> "sel_autorelease", name |-> "autorelease"],
                 [var |-> "sel_retain", name |-> "retain"],
                 [var |-> "sel_release", name |-> "release"],
                 [var |-> "sel_count", name |-> "count"],
                 [var |-> "sel_objectAtIndex", name |-> "objectAtIndex:"],
                 [var |-> "sel_addObject", name |-> "addObject:"],
                 [var |-> "sel_removeObjectAtIndex", name |-> "removeObjectAtIndex:"],
                 [var |-> "sel_insertObjectAtIndex", name |-> "insertObject:atIndex:"],
                 [var |-> "sel_replaceObjectAtIndex", name |-> "replaceObject:atIndex:withObject:"],
                 [var |-> "sel_removeAllObjects", name |-> "removeAllObjects"],
                 [var |-> "sel_setObjectForKey", name |-> "setObject:forKey:"],
                 [var |-> "sel_objectForKey", name |-> "objectForKey:"],
                 [var |-> "sel_allKeys", name |-> "allKeys"],
                 [var |-> "sel_stringWithUTF8String", name |-> "stringWithUTF8String:"],
                 [var |-> "sel_UTF8String", name |-> "UTF8String"],
                 [var |-> "sel_length", name |-> "length"],
                 [var |-> "sel_lengthOfBytesUsingEnc", name |-> "lengthOfBytesUsingEncoding:"],
                 [var |-> "sel_initWithCapacity", name |-> "initWithCapacity:"],
                 [var |-> "sel_arrayWithObjectsCount", name |-> "arrayWithObjects:count:"]>>]

ensure_selectors ==
    [guard  |-> "sel_alloc",
     stores |-> <<[var |-> "sel_alloc", name |-> "alloc"],
                 [var |-> "sel_init", name |-> "init"],
                 [var |-> "sel_autorelease", name |-> "autorelease"],
                 [var |-> "sel_retain", name |-> "retain"],
                 [var |-> "sel_release", name |-> "release"],
                 [var |-> "sel_count", name |-> "count"],
                 [var |-> "sel_objectAtIndex", name |-> "objectAtIndex:"],
                 [var |-> "sel_addObject", name |-> "addObject:"],
                 [var |-> "sel_removeObjectAtIndex", name |-> "removeObjectAtIndex:"],
                 [var |-> "sel_insertObjectAtIndex", name |-> "insertObject:atIndex:"],
                 [var |-> "sel_replaceObjectAtIndex", name |-> "replaceObject:atIndex:withObject:"],
                 [var |-> "sel_removeAllObjects", name |-> "removeAllObjects"],
                 [var |-> "sel_setObjectForKey", name |-> "setObject:forKey:"],
                 [var |-> "sel_objectForKey", name |-> "objectForKey:"],
                 [var |-> "sel_allKeys", name |-> "allKeys"],
                 [var |-> "sel_stringWithUTF8String", name |-> "stringWithUTF8String:"],
                 [var |-> "sel_UTF8String", name |-> "UTF8String"],
                 [var |-> "sel_length", name |-> "length"],
                 [var |-> "sel_lengthOfBytesUsingEnc", name |-> "lengthOfBytesUsingEncoding:"],
                 [var |-> "sel_initWithCapacity", name |-> "initWithCapacity:"],
                 [var |-> "sel_arrayWithObjectsCount", name |-> "arrayWithObjects:count:"]>>]

\* The statements of a bridge function that touch the host runtime or the
\* selector cache, in program order:
\*   ensure_selectors();
\*   objc_getClass("str")
\*   SEL var = sel_registerName("str");   (var = "" when passed inline)
\*   ((castRet (*)(cast))objc_msgSend)(receiver, var, ...)
\*   the same send as the body of a for loop over the count parameter
\*   return fn(...) of another bridge function
Step(op, s, var, castRet, cast, args, dst) ==
    [op |-> op, s |-> s, var |-> var, castRet |-> castRet, cast |-> cast,
     args |-> args, dst |-> dst, i |-> 0]

\* The expressions passed as arguments: a parameter or local, the element of
\* an array parameter at the loop index, the loop index, a literal.
V(n) == [k |-> "var", n |-> n]
At(n) == [k |-> "at", n |-> n]
K(c) == [k |-> "lit", n |-> c]
Index == [k |-> "index", n |-> "i"]

\* A function body with another statement where the call should be.
EnsureSelectors_Omitted == Step("objc_getClass", "NSObject", "", "", <<>>, <<>>, "")
EnsureSelectors == Step("ensure_selectors", "", "", "", <<>>, <<>>, "")
ClassLookup(var, str) == Step("objc_getClass", str, "", "", <<>>, <<>>, var)
SelLookup_AutoreleaseForDrain(var, str) ==
    Step("sel_registerName", IF str = "drain" THEN "autorelease" ELSE str, var, "", <<>>, <<>>, var)
SelLookup(var, str) == Step("sel_registerName", str, var, "", <<>>, <<>>, var)
MsgSend_RetainForAutorelease(castRet, cast, args, dst) ==
    Step("objc_msgSend", "",
         IF Len(args) < 2 THEN ""
         ELSE IF args[2].n = "sel_autorelease" THEN "sel_retain" ELSE args[2].n,
         castRet, cast, args, dst)
MsgSend_Exchanged(castRet, cast, args, dst) ==
    Step("objc_msgSend", "", IF Len(args) >= 2 THEN args[2].n ELSE "", castRet, cast,
         IF Len(args) >= 4 /\ args[3].n \in {"values", "value"}
             THEN [args EXCEPT ![3] = args[4], ![4] = args[3]] ELSE args, dst)
MsgSend(castRet, cast, args, dst) ==
    Step("objc_msgSend", "", IF Len(args) >= 2 THEN args[2].n ELSE "", castRet, cast, args, dst)
LoopSend(castRet, cast, args, dst) ==
    Step("for", "", IF Len(args) >= 2 THEN args[2].n ELSE "", castRet, cast, args, dst)
CallFn(name, args, dst) == Step("call", name, "", "", <<>>, args, dst)

\* lines 103-401: the Objective-C functions of the file, each as its statements
CollectionFunctions ==
    {
      \* lines 103-108: nsstring_create
      [name   |-> "nsstring_create",
       params |-> <<"utf8_str">>,
       steps  |-> <<EnsureSelectors,
                    ClassLookup("cls", "NSString"),
                    MsgSend("void*", <<"void*", "SEL", "const char*">>,
                            <<V("cls"), V("sel_stringWithUTF8String"), V("utf8_str")>>, "return")>>],
      \* lines 113-122: nsstring_create_with_bytes
      [name   |-> "nsstring_create_with_bytes",
       params |-> <<"bytes", "byte_len">>,
       steps  |-> <<EnsureSelectors,
                    ClassLookup("cls", "NSString"),
                    SelLookup("sel_initWithBytes", "initWithBytes:length:encoding:"),
                    MsgSend("void*", <<"void*", "SEL">>,
                            <<V("cls"), V("sel_alloc")>>, "obj"),
                    MsgSend("void*", <<"void*", "SEL", "const char*", "unsigned long", "unsigned long">>,
                            <<V("obj"), V("sel_initWithBytes"), V("bytes"), V("byte_len"), K("4")>>, "obj"),
                    MsgSend("void*", <<"void*", "SEL">>,
                            <<V("obj"), V("sel_autorelease")>>, "return")>>],
      \* lines 129-138: nsstring_to_utf8
      [name   |-> "nsstring_to_utf8",
       params |-> <<"nsstring", "out_len">>,
       steps  |-> <<EnsureSelectors,
                    MsgSend("const char*", <<"void*", "SEL">>,
                            <<V("nsstring"), V("sel_UTF8String")>>, "cstr"),
                    MsgSend("unsigned long", <<"void*", "SEL", "unsigned long">>,
                            <<V("nsstring"), V("sel_lengthOfBytesUsingEnc"), K("4")>>, "byte_len")>>],
      \* lines 141-144: nsstring_length
      [name   |-> "nsstring_length",
       params |-> <<"nsstring">>,
       steps  |-> <<EnsureSelectors,
                    MsgSend("unsigned long", <<"void*", "SEL">>,
                            <<V("nsstring"), V("sel_length")>>, "return")>>],
      \* lines 159-164: nsarray_create
      [name   |-> "nsarray_create",
       params |-> <<"objects", "count">>,
       steps  |-> <<EnsureSelectors,
                    ClassLookup("cls", "NSArray"),
                    MsgSend("void*", <<"void*", "SEL", "const void**", "unsigned long">>,
                            <<V("cls"), V("sel_arrayWithObjectsCount"), V("objects"), V("count")>>, "return")>>],
      \* lines 167-170: nsarray_count
      [name   |-> "nsarray_count",
       params |-> <<"nsarray">>,
       steps  |-> <<EnsureSelectors,
                    MsgSend("unsigned long", <<"void*", "SEL">>,
                            <<V("nsarray"), V("sel_count")>>, "return")>>],
      \* lines 174-178: nsarray_object_at
      [name   |-> "nsarray_object_at",
       params |-> <<"nsarray", "index">>,
       steps  |-> <<EnsureSelectors,
                    MsgSend("void*", <<"void*", "SEL", "unsigned long">>,
                            <<V("nsarray"), V("sel_objectAtIndex"), V("index")>>, "return")>>],
      \* lines 184-190: nsarray_get_objects
      [name   |-> "nsarray_get_objects",
       params |-> <<"nsarray", "out_buf", "count">>,
       steps  |-> <<EnsureSelectors,
                    LoopSend("void*", <<"void*", "SEL", "unsigned long">>,
                            <<V("nsarray"), V("sel_objectAtIndex"), Index>>, "out_buf[i]")>>],
      \* lines 198-205: nsmutablearray_create
      [name   |-> "nsmutablearray_create",
       params |-> <<"capacity">>,
       steps  |-> <<EnsureSelectors,
                    ClassLookup("cls", "NSMutableArray"),
                    MsgSend("void*", <<"void*", "SEL">>,
                            <<V("cls"), V("sel_alloc")>>, "obj"),
                    MsgSend("void*", <<"void*", "SEL", "unsigned long">>,
                            <<V("obj"), V("sel_initWithCapacity"), V("capacity")>>, "obj"),
                    MsgSend("void*", <<"void*", "SEL">>,
                            <<V("obj"), V("sel_autorelease")>>, "return")>>],
      \* lines 209-219: nsmutablearray_create_from
      [name   |-> "nsmutablearray_create_from",
       params |-> <<"objects", "count">>,
       steps  |-> <<EnsureSelectors,
                    ClassLookup("cls", "NSMutableArray"),
                    MsgSend("void*", <<"void*", "SEL", "const void**", "unsigned long">>,
                            <<V("cls"), V("sel_arrayWithObjectsCount"), V("objects"), V("count")>>, "immutable"),
                    SelLookup("sel_mutableCopy", "mutableCopy"),
                    MsgSend("void*", <<"void*", "SEL">>,
                            <<V("immutable"), V("sel_mutableCopy")>>, "mutable_arr"),
                    MsgSend("void*", <<"void*", "SEL">>,
                            <<V("mutable_arr"), V("sel_autorelease")>>, "return")>>],
      \* lines 222-225: nsmutablearray_add
      [name   |-> "nsmutablearray_add",
       params |-> <<"marray", "object">>,
       steps  |-> <<EnsureSelectors,
                    MsgSend("void", <<"void*", "SEL", "void*">>,
                            <<V("marray"), V("sel_addObject"), V("object")>>, "")>>],
      \* lines 228-232: nsmutablearray_insert
      [name   |-> "nsmutablearray_insert",
       params |-> <<"marray", "object", "index">>,
       steps  |-> <<EnsureSelectors,
                    MsgSend("void", <<"void*", "SEL", "void*", "unsigned long">>,
                            <<V("marray"), V("sel_insertObjectAtIndex"), V("object"), V("index")>>, "")>>],
      \* lines 235-239: nsmutablearray_remove_at
      [name   |-> "nsmutablearray_remove_at",
       params |-> <<"marray", "index">>,
       steps  |-> <<EnsureSelectors,
                    MsgSend("void", <<"void*", "SEL", "unsigned long">>,
                            <<V("marray"), V("sel_removeObjectAtIndex"), V("index")>>, "")>>],
      \* lines 242-245: nsmutablearray_remove_all
      [name   |-> "nsmutablearray_remove_all",
       params |-> <<"marray">>,
       steps  |-> <<EnsureSelectors,
                    MsgSend("void", <<"void*", "SEL">>,
                            <<V("marray"), V("sel_removeAllObjects")>>, "")>>],
      \* lines 250-256: nsmutablearray_add_batch
      [name   |-> "nsmutablearray_add_batch",
       params |-> <<"marray", "objects", "count">>,
       steps  |-> <<EnsureSelectors,
                    LoopSend("void", <<"void*", "SEL", "void*">>,
                            <<V("marray"), V("sel_addObject"), At("objects")>>, "")>>],
      \* lines 259-261: nsmutablearray_count
      [name   |-> "nsmutablearray_count",
       params |-> <<"marray">>,
       steps  |-> <<CallFn("nsarray_count", <<V("marray")>>, "return")>>],
      \* lines 264-266: nsmutablearray_object_at
      [name   |-> "nsmutablearray_object_at",
       params |-> <<"marray", "index">>,
       steps  |-> <<CallFn("nsarray_object_at", <<V("marray"), V("index")>>, "return")>>],
      \* lines 275-281: nsdictionary_create
      [name   |-> "nsdictionary_create",
       params |-> <<"keys", "values", "count">>,
       steps  |-> <<EnsureSelectors,
                    ClassLookup("cls", "NSDictionary"),
                    SelLookup("sel_dictWithObjsForKeys", "dictionaryWithObjects:forKeys:count:"),
                    MsgSend("void*", <<"void*", "SEL", "const void**", "const void**", "unsigned long">>,
                            <<V("cls"), V("sel_dictWithObjsForKeys"), V("values"), V("keys"), V("count")>>, "return")>>],
      \* lines 285-292: nsmutabledictionary_create
      [name   |-> "nsmutabledictionary_create",
       params |-> <<"capacity">>,
       steps  |-> <<EnsureSelectors,
                    ClassLookup("cls", "NSMutableDictionary"),
                    MsgSend("void*", <<"void*", "SEL">>,
                            <<V("cls"), V("sel_alloc")>>, "obj"),
                    MsgSend("void*", <<"void*", "SEL", "unsigned long">>,
                            <<V("obj"), V("sel_initWithCapacity"), V("capacity")>>, "obj"),
                    MsgSend("void*", <<"void*", "SEL">>,
                            <<V("obj"), V("sel_autorelease")>>, "return")>>],
      \* lines 295-299: nsmutabledictionary_set
      [name   |-> "nsmutabledictionary_set",
       params |-> <<"mdict", "key", "value">>,
       steps  |-> <<EnsureSelectors,
                    MsgSend("void", <<"void*", "SEL", "void*", "void*">>,
                            <<V("mdict"), V("sel_setObjectForKey"), V("value"), V("key")>>, "")>>],
      \* lines 303-306: nsdictionary_get
      [name   |-> "nsdictionary_get",
       params |-> <<"dict", "key">>,
       steps  |-> <<EnsureSelectors,
                    MsgSend("void*", <<"void*", "SEL", "void*">>,
                            <<V("dict"), V("sel_objectForKey"), V("key")>>, "return")>>],
      \* lines 310-313: nsdictionary_all_keys
      [name   |-> "nsdictionary_all_keys",
       params |-> <<"dict">>,
       steps  |-> <<EnsureSelectors,
                    MsgSend("void*", <<"void*", "SEL">>,
                            <<V("dict"), V("sel_allKeys")>>, "return")>>],
      \* lines 316-319: nsdictionary_count
      [name   |-> "nsdictionary_count",
       params |-> <<"dict">>,
       steps  |-> <<EnsureSelectors,
                    MsgSend("unsigned long", <<"void*", "SEL">>,
                            <<V("dict"), V("sel_count")>>, "return")>>],
      \* lines 334-346: nsstack_set_views
      [name   |-> "nsstack_set_views",
       params |-> <<"stack_view", "views", "count", "gravity">>,
       steps  |-> <<EnsureSelectors,
                    ClassLookup("cls", "NSArray"),
                    MsgSend("void*", <<"void*", "SEL", "const void**", "unsigned long">>,
                            <<V("cls"), V("sel_arrayWithObjectsCount"), V("views"), V("count")>>, "views_array"),
                    SelLookup("sel_setViewsInGravity", "setViews:inGravity:"),
                    MsgSend("void", <<"void*", "SEL", "void*", "long">>,
                            <<V("stack_view"), V("sel_setViewsInGravity"), V("views_array"), V("gravity")>>, "")>>],
      \* lines 350-356: objc_add_subviews_batch
      [name   |-> "objc_add_subviews_batch",
       params |-> <<"parent", "children", "count">>,
       steps  |-> <<SelLookup("sel_addSubview", "addSubview:"),
                    LoopSend("void", <<"void*", "SEL", "void*">>,
                            <<V("parent"), V("sel_addSubview"), At("children")>>, "")>>],
      \* lines 365-370: autorelease_pool_push
      [name   |-> "autorelease_pool_push",
       params |-> <<>>,
       steps  |-> <<EnsureSelectors,
                    ClassLookup("cls", "NSAutoreleasePool"),
                    MsgSend("void*", <<"void*", "SEL">>,
                            <<V("cls"), V("sel_alloc")>>, "pool"),
                    MsgSend("void*", <<"void*", "SEL">>,
                            <<V("pool"), V("sel_init")>>, "return")>>],
      \* lines 374-378: autorelease_pool_pop
      [name   |-> "autorelease_pool_pop",
       params |-> <<"pool">>,
       steps  |-> <<EnsureSelectors,
                    SelLookup("sel_drain", "drain"),
                    MsgSend("void", <<"void*", "SEL">>,
                            <<V("pool"), V("sel_drain")>>, "")>>],
      \* lines 386-389: objc_retain_object
      [name   |-> "objc_retain_object",
       params |-> <<"obj">>,
       steps  |-> <<EnsureSelectors,
                    MsgSend("void*", <<"void*", "SEL">>,
                            <<V("obj"), V("sel_retain")>>, "return")>>],
      \* lines 392-395: objc_release_object
      [name   |-> "objc_release_object",
       params |-> <<"obj">>,
       steps  |-> <<EnsureSelectors,
                    MsgSend("void", <<"void*", "SEL">>,
                            <<V("obj"), V("sel_release")>>, "")>>],
      \* lines 398-401: objc_autorelease_object
      [name   |-> "objc_autorelease_object",
       params |-> <<"obj">>,
       steps  |-> <<EnsureSelectors,
                    MsgSend("void*", <<"void*", "SEL">>,
                            <<V("obj"), V("sel_autorelease")>>, "return")>>]
    }

CollectionByName(name) == CHOOSE f \in CollectionFunctions : f.name = name

\* The statements one call executes: a loop of `count` iterations is `count`
\* sends, a delegating call is the statements of the function called.
RECURSIVE Expand(_, _)
Expand(steps, count) ==
    IF steps = <<>> THEN <<>>
    ELSE LET h == Head(steps)
             first == CASE h.op = "for"  -> [i \in 1..count |-> [h EXCEPT !.op = "objc_msgSend", !.i = i - 1]]
                        [] h.op = "call" -> Expand(CollectionByName(h.s).steps, count)
                        [] OTHER         -> <<h>>
         IN  first \o Expand(Tail(steps), count)

\* A convenience helper of objc_bridge.c as statements: its inline lookups,
\* then its one send.
HelperSteps(w) ==
    [i \in 1..Len(Lookups(w)) |->
        IF Lookups(w)[i].f = "objc_getClass"
            THEN ClassLookup("", Lookups(w)[i].s)
            ELSE SelLookup("", Lookups(w)[i].s)]
    \o <<MsgSend(w.castRet, w.cast, <<>>, "")>>

\* The bridge functions the threads call: one that uses only cached
\* selectors, one that mixes cached and uncached selectors, one that never
\* calls ensure_selectors, and one convenience helper of objc_bridge.c.
Entrypoints ==
    {CollectionByName("nsarray_count"),
     CollectionByName("nsstring_create_with_bytes"),
     CollectionByName("objc_add_subviews_batch"),
     [name |-> nscolor_rgba.name, steps |-> HelperSteps(nscolor_rgba)]}

Threads == 1..NThreads

CachedVars == {CacheVars[i] : i \in 1..Len(CacheVars)}

\* The selector strings ensure_selectors registers.
CachedNames == {ensure_selectors.stores[i].name : i \in 1..Len(ensure_selectors.stores)}

\* The selector strings the entry points register on their own.
UncachedNames ==
    UNION {{f.steps[i].s : i \in {j \in 1..Len(f.steps) : f.steps[j].op = "sel_registerName"}} :
              f \in Entrypoints}

SelectorNames == CachedNames \cup UncachedNames

NoLocal == [var |-> "none", tok |-> Unwritten]
NoSend == [var |-> "none", tok |-> Unwritten]

TotalCalls ==
    LET RECURSIVE Sum(_)
        Sum(n) == IF n = 0 THEN 0 ELSE t_calls[n] + Sum(n - 1)
    IN  Sum(NThreads)

AtStep(t, op) == ~s_crashed /\ t_todo[t] # <<>> /\ Head(t_todo[t]).op = op

Pop(t) == t_todo' = [t_todo EXCEPT ![t] = Tail(@)]

\* Thread t calls a bridge function.
Enter(t) ==
    /\ ~s_crashed
    /\ t_fn[t] = "none"
    /\ TotalCalls < MaxCalls
    /\ \E f \in Entrypoints, count \in 0..MaxCount :
          /\ t_fn' = [t_fn EXCEPT ![t] = f.name]
          /\ t_todo' = [t_todo EXCEPT ![t] = Expand(f.steps, count)]
    /\ t_calls' = [t_calls EXCEPT ![t] = @ + 1]
    /\ UNCHANGED <<cache, lookups, t_ens, t_local, t_sel, s_crashed>>

\* ensure_selectors, line 72: if (sel_alloc) return;
EnsureCheck(t) ==
    /\ AtStep(t, "ensure_selectors")
    /\ t_ens[t] = 0
    /\ IF ensure_selectors.guard # "" /\ cache[ensure_selectors.guard] # NullSel
          THEN Pop(t) /\ UNCHANGED t_ens
          ELSE t_ens' = [t_ens EXCEPT ![t] = 1] /\ UNCHANGED t_todo
    /\ UNCHANGED <<cache, lookups, t_fn, t_calls, t_local, t_sel, s_crashed>>

\* ensure_selectors, lines 73-93: one assignment sel_x = sel_registerName("x")
EnsureStore(t) ==
    /\ AtStep(t, "ensure_selectors")
    /\ t_ens[t] >= 1
    /\ LET st == ensure_selectors.stores[t_ens[t]]
       IN  /\ cache' = [cache EXCEPT ![st.var] = sel_registerName(st.name)]
           /\ lookups' = [lookups EXCEPT ![st.name] = @ + 1]
    /\ IF t_ens[t] = Len(ensure_selectors.stores)
          THEN t_ens' = [t_ens EXCEPT ![t] = 0] /\ Pop(t)
          ELSE t_ens' = [t_ens EXCEPT ![t] = @ + 1] /\ UNCHANGED t_todo
    /\ UNCHANGED <<t_fn, t_calls, t_local, t_sel, s_crashed>>

\* void* cls = (void*)objc_getClass("...");
LookupClass(t) ==
    /\ AtStep(t, "objc_getClass")
    /\ Pop(t)
    /\ UNCHANGED <<cache, lookups, t_fn, t_calls, t_ens, t_local, t_sel, s_crashed>>

\* SEL sel_x = sel_registerName("..."); in the body of a bridge function
LookupSel(t) ==
    /\ AtStep(t, "sel_registerName")
    /\ LET h == Head(t_todo[t])
       IN  /\ t_local' = [t_local EXCEPT ![t] = [var |-> h.var, tok |-> sel_registerName(h.s)]]
           /\ lookups' = [lookups EXCEPT ![h.s] = @ + 1]
    /\ Pop(t)
    /\ UNCHANGED <<cache, t_fn, t_calls, t_ens, t_sel, s_crashed>>

\* The selector a send passes: the cache variable's current value, or the
\* function's local.
SelectorOf(t, var) ==
    IF var \in CachedVars THEN cache[var]
    ELSE IF t_local[t].var = var THEN t_local[t].tok ELSE Unwritten

\* ((castRet (*)(cast))objc_msgSend)(receiver, selector, ...).  A send whose
\* selector is 0 names no method: with a nil receiver it returns 0, with an
\* object the runtime fails to find a method and the process aborts.
Send(t) ==
    /\ AtStep(t, "objc_msgSend")
    /\ LET h == Head(t_todo[t])
       IN  /\ t_sel' = [t_sel EXCEPT ![t] = [var |-> h.var, tok |-> SelectorOf(t, h.var)]]
           /\ \/ s_crashed' = FALSE
              \/ SelectorOf(t, h.var) = NullSel /\ s_crashed' = TRUE
    /\ Pop(t)
    /\ UNCHANGED <<cache, lookups, t_fn, t_calls, t_ens, t_local>>

\* The bridge function returns to thread t.
Leave(t) ==
    /\ ~s_crashed
    /\ t_fn[t] # "none"
    /\ t_todo[t] = <<>>
    /\ t_fn' = [t_fn EXCEPT ![t] = "none"]
    /\ t_local' = [t_local EXCEPT ![t] = NoLocal]
    /\ t_sel' = [t_sel EXCEPT ![t] = NoSend]
    /\ UNCHANGED <<cache, lookups, t_todo, t_calls, t_ens, s_crashed>>

SelInit ==
    /\ cache = [v \in CachedVars |-> NullSel]
    /\ lookups = [n \in SelectorNames |-> 0]
    /\ t_fn = [t \in Threads |-> "none"]
    /\ t_todo = [t \in Threads |-> <<>>]
    /\ t_calls = [t \in Threads |-> 0]
    /\ t_ens = [t \in Threads |-> 0]
    /\ t_local = [t \in Threads |-> NoLocal]
    /\ t_sel = [t \in Threads |-> NoSend]
    /\ s_crashed = FALSE

NextSel ==
    \/ \E t \in Threads : Enter(t)
    \/ \E t \in Threads : EnsureCheck(t)
    \/ \E t \in Threads : EnsureStore(t)
    \/ \E t \in Threads : LookupClass(t)
    \/ \E t \in Threads : LookupSel(t)
    \/ \E t \in Threads : Send(t)
    \/ \E t \in Threads : Leave(t)

(***************************************************************************)
(* llvm_ext.cc: LLVMExtSetWasmExceptionHandling                            *)
(***************************************************************************)
\* lines 11-12: #define LLVM_VERSION_GE(major, minor)
LLVM_VERSION_GE(v, major, minor) ==
    v.major > major \/ (v.major = major /\ v.minor >= minor)

\* The exception models a target machine or its MCAsmInfo can carry.
ExceptionHandling == {"None", "DwarfCFI", "Wasm"}

LlvmVersions ==
    [major : (MaxLlvmMajor - 3)..MaxLlvmMajor, minor : 0..MaxLlvmMinor]

TargetMachines == 1..MaxTM

\* The function with a wrong version test: the target machine is set up on
\* LLVM 22 and later only.
LLVMExtSetWasmExceptionHandling_WrongVersions(v, tm, T) ==
    [tm     |-> IF LLVM_VERSION_GE(v, 22, 0)
                   THEN [tm EXCEPT ![T] = [ExceptionModel |-> "Wasm", ExceptionsType |-> "Wasm"]]
                   ELSE tm,
     enable |-> TRUE,
     legacy |-> TRUE]

\* The function as the comment of lines 29-30 describes it: new EH format.
LLVMExtSetWasmExceptionHandling_NewFormat(v, tm, T) ==
    [tm     |-> IF ~LLVM_VERSION_GE(v, 22, 0)
                   THEN [tm EXCEPT ![T] = [ExceptionModel |-> "Wasm", ExceptionsType |-> "Wasm"]]
                   ELSE tm,
     enable |-> TRUE,
     legacy |-> FALSE]

\* lines 123-136: what the function leaves: the target machines and the two
\* cl::opt flags.
LLVMExtSetWasmExceptionHandling(v, tm, T) ==
    [tm     |-> IF ~LLVM_VERSION_GE(v, 22, 0)
                   THEN [tm EXCEPT ![T] = [ExceptionModel |-> "Wasm", ExceptionsType |-> "Wasm"]]
                   ELSE tm,
     enable |-> TRUE,
     legacy |-> TRUE]

\* The version of LLVM the extension is compiled against is fixed once.
NoVersion == [major |-> 0, minor |-> 0]

Build ==
    /\ e_version = NoVersion
    /\ e_version' \in LlvmVersions
    /\ UNCHANGED <<e_tm, e_enable, e_legacy, e_last>>

\* The compiler creates target machine T: its constructor leaves some
\* exception model in the options and some in the MCAsmInfo (the C API
\* constructor does not propagate the one to the other, lines 109-110).
NotCreated == [ExceptionModel |-> "none", ExceptionsType |-> "none"]

CreateTargetMachine ==
    /\ e_version # NoVersion
    /\ \E T \in TargetMachines :
          /\ e_tm[T] = NotCreated
          /\ \E tm \in [ExceptionModel : ExceptionHandling, ExceptionsType : ExceptionHandling] :
                e_tm' = [e_tm EXCEPT ![T] = tm]
    /\ UNCHANGED <<e_version, e_enable, e_legacy, e_last>>

\* The compiler calls the function on target machine T.
SetWasmExceptionHandling ==
    /\ e_version # NoVersion
    /\ \E T \in TargetMachines :
        /\ e_tm[T] # NotCreated
        /\ LET r == LLVMExtSetWasmExceptionHandling(e_version, e_tm, T)
           IN  /\ e_tm' = r.tm
               /\ e_enable' = r.enable
               /\ e_legacy' = r.legacy
               /\ e_last' = [T |-> T, before |-> e_tm[T], legacy |-> e_legacy]
               /\ UNCHANGED e_version

\* The cl::opt flags are command-line options: they can be given a value
\* when the options are parsed, before the compiler sets up code generation.
ParseCommandLineOptions ==
    /\ e_version # NoVersion
    /\ e_last.T = 0
    /\ \E en \in BOOLEAN, leg \in BOOLEAN :
          /\ <<en, leg>> # <<e_enable, e_legacy>>
          /\ e_enable' = en
          /\ e_legacy' = leg
    /\ UNCHANGED <<e_version, e_tm, e_last>>

\* Flags at their LLVM defaults (WasmUseLegacyEH defaults to true, line 30);
\* no target machine created, no call made.
EhInit ==
    /\ e_version = NoVersion
    /\ e_tm = [T \in TargetMachines |-> NotCreated]
    /\ e_enable = FALSE
    /\ e_legacy = TRUE
    /\ e_last = [T |-> 0, before |-> NotCreated, legacy |-> TRUE]

NextEh == Build \/ CreateTargetMachine \/ SetWasmExceptionHandling \/ ParseCommandLineOptions

(***************************************************************************)
(* collection_bridge.c called by one thread: the Objective-C object graph   *)
(* (retain counts, autorelease pools, container contents) and the JNI       *)
(* local-reference frames, as the bridge functions drive them               *)
(***************************************************************************)
Nil == Val("id", 0)

\* a heap slot no object has been allocated in
NoObject == [kind |-> "", rc |-> 0, items |-> <<>>, keys |-> <<>>]

\* the pool of the thread's event loop: never popped by the bridge's caller
RootPool == [id |-> 0, pending |-> <<>>]

\* -release: the count drops by one; at zero the object is deallocated, its
\* memory is free again, and it releases what it holds.
RECURSIVE Release(_, _)
Release(heap, o) ==
    IF heap[o].rc > 1 THEN [heap EXCEPT ![o].rc = @ - 1]
    ELSE LET RECURSIVE All(_, _)
             All(h, xs) == IF xs = <<>> THEN h ELSE All(Release(h, Head(xs)), Tail(xs))
         IN  All([heap EXCEPT ![o] = NoObject], heap[o].items \o heap[o].keys)

\* What the Objective-C runtime does with one message: the effect on the
\* heap and the pools, the objects a drain released, and the value returned.
objc_msgSend(st, recv, sel, a) ==
    LET heap == st.heap
        pools == st.pools
        top == Len(pools)
        new == CHOOSE o \in 1..MaxHeap :
                   heap[o].kind = "" /\ \A q \in 1..(o - 1) : heap[q].kind # ""
        RECURSIVE RetainAll(_, _)
        RetainAll(h, xs) ==
            IF xs = <<>> THEN h
            ELSE RetainAll([h EXCEPT ![Head(xs)].rc = @ + 1], Tail(xs))
        RECURSIVE ReleaseAll(_, _)
        ReleaseAll(h, xs) ==
            IF xs = <<>> THEN h ELSE ReleaseAll(Release(h, Head(xs)), Tail(xs))
        Ids(arr, n) == [i \in 1..n |-> arr.v[i].v]
        Same == [heap |-> heap, pools |-> pools, drained |-> st.drained]
        Autoreleased(o) == [pools EXCEPT ![top].pending = Append(@, o)]
        r == recv.v
    IN  IF recv = Nil THEN Same @@ [res |-> Nil]
        ELSE CASE sel.v = "alloc" ->
                 [Same EXCEPT !.heap = [heap EXCEPT ![new] = [NoObject EXCEPT !.kind = r, !.rc = 1]]]
                     @@ [res |-> Val("id", new)]
          [] sel.v \in {"init", "initWithCapacity:", "initWithBytes:length:encoding:"} ->
                 [Same EXCEPT !.pools = IF heap[r].kind = "NSAutoreleasePool"
                                            THEN Append(pools, [id |-> r, pending |-> <<>>])
                                            ELSE pools]
                     @@ [res |-> recv]
          [] sel.v = "autorelease" ->
                 [Same EXCEPT !.pools = Autoreleased(r)] @@ [res |-> recv]
          [] sel.v = "retain" ->
                 [Same EXCEPT !.heap = [heap EXCEPT ![r].rc = @ + 1]] @@ [res |-> recv]
          [] sel.v = "release" ->
                 [Same EXCEPT !.heap = Release(heap, r)] @@ [res |-> NoValue]
          [] sel.v = "mutableCopy" ->
                 [Same EXCEPT !.heap = RetainAll([heap EXCEPT ![new] =
                                            [heap[r] EXCEPT !.kind = "NSMutableArray", !.rc = 1]],
                                            heap[r].items)]
                     @@ [res |-> Val("id", new)]
          [] sel.v = "arrayWithObjects:count:" ->
                 [Same EXCEPT !.heap = RetainAll([heap EXCEPT ![new] =
                                            [NoObject EXCEPT !.kind = r, !.rc = 1,
                                                             !.items = Ids(a[1], a[2].v)]],
                                            Ids(a[1], a[2].v)),
                              !.pools = Autoreleased(new)]
                     @@ [res |-> Val("id", new)]
          [] sel.v = "dictionaryWithObjects:forKeys:count:" ->
                 [Same EXCEPT !.heap = RetainAll([heap EXCEPT ![new] =
                                            [NoObject EXCEPT !.kind = r, !.rc = 1,
                                                             !.items = Ids(a[1], a[3].v),
                                                             !.keys = Ids(a[2], a[3].v)]],
                                            Ids(a[1], a[3].v) \o Ids(a[2], a[3].v)),
                              !.pools = Autoreleased(new)]
                     @@ [res |-> Val("id", new)]
          [] sel.v = "setObject:forKey:" ->
                 LET at == {i \in 1..Len(heap[r].keys) : heap[r].keys[i] = a[2].v}
                 IN  [Same EXCEPT !.heap =
                         IF at = {}
                             THEN RetainAll([heap EXCEPT ![r].items = Append(@, a[1].v),
                                                         ![r].keys = Append(@, a[2].v)],
                                            <<a[1].v, a[2].v>>)
                             ELSE LET i == CHOOSE j \in at : TRUE
                                  IN  Release(RetainAll([heap EXCEPT ![r].items[i] = a[1].v],
                                                        <<a[1].v>>),
                                              heap[r].items[i])]
                     @@ [res |-> NoValue]
          [] sel.v = "objectForKey:" ->
                 LET at == {i \in 1..Len(heap[r].keys) : heap[r].keys[i] = a[1].v}
                 IN  Same @@ [res |-> IF at = {} THEN Nil
                                      ELSE Val("id", heap[r].items[CHOOSE j \in at : TRUE])]
          [] sel.v \in {"addObject:", "addSubview:"} ->
                 [Same EXCEPT !.heap = RetainAll([heap EXCEPT ![r].items = Append(@, a[1].v)],
                                                 <<a[1].v>>)]
                     @@ [res |-> NoValue]
          [] sel.v = "drain" ->
                 LET at == CHOOSE i \in 1..top : pools[i].id = r
                     RECURSIVE Pending(_)
                     Pending(i) == IF i < at THEN <<>> ELSE pools[i].pending \o Pending(i - 1)
                 IN  [heap    |-> Release(ReleaseAll(heap, Pending(top)), r),
                      pools   |-> SubSeq(pools, 1, at - 1),
                      drained |-> st.drained \o Pending(top),
                      res     |-> NoValue]
          [] OTHER -> Same @@ [res |-> Nil]

ArgValue_FirstElement(e, env, i) ==
    CASE e.k = "var"   -> env[e.n]
      [] e.k = "at"    -> env[e.n].v[1]
      [] e.k = "index" -> Val("ulong", i)
      [] e.k = "lit"   -> IF e.n = "NULL" THEN Nil ELSE Val("ulong", e.n)

\* The value of an argument expression in a function's frame.
ArgValue(e, env, i) ==
    CASE e.k = "var"   -> env[e.n]
      [] e.k = "at"    -> env[e.n].v[i + 1]
      [] e.k = "index" -> Val("ulong", i)
      [] e.k = "lit"   -> IF e.n = "NULL" THEN Nil ELSE Val("ulong", e.n)

\* One call of an Objective-C function of the file by a single thread: its
\* statements in order, each send handed to the runtime.
RECURSIVE RunObjc(_, _)
RunObjc(steps, st) ==
    IF steps = <<>> THEN st
    ELSE LET h == Head(steps)
             Bind(env, var, val) ==
                 [x \in DOMAIN env \cup {var} |-> IF x = var THEN val ELSE env[x]]
             stored == ensure_selectors.stores[CHOOSE j \in 1..Len(ensure_selectors.stores) :
                                                   ensure_selectors.stores[j].var = h.var]
             selector == IF h.var \in CachedVars
                             THEN (IF st.ready THEN sel_registerName(stored.name) ELSE NullSel)
                             ELSE st.env[h.var]
             Returned_(recv, sel, args, r) ==
                 [st EXCEPT !.heap = r.heap, !.pools = r.pools, !.drained = r.drained,
                            !.env = IF h.dst \in {"", "return"} THEN @
                                    ELSE Bind(@, h.dst, r.res),
                            !.ret = IF h.dst = "return" THEN r.res ELSE @,
                            !.log = Append(@, [f |-> "objc_msgSend", recv |-> recv,
                                               sel |-> sel.v, args |-> args,
                                               res |-> r.res])]
             Sent(recv, sel, args) ==
                 Returned_(recv, sel, args, objc_msgSend(st, recv, sel, args))
             next ==
                 CASE h.op = "ensure_selectors" -> [st EXCEPT !.ready = TRUE]
                   [] h.op = "objc_getClass" ->
                          [st EXCEPT !.env = Bind(@, h.dst, objc_getClass(h.s))]
                   [] h.op = "sel_registerName" ->
                          [st EXCEPT !.env = Bind(@, h.var, sel_registerName(h.s))]
                   [] h.op = "objc_msgSend" ->
                          Sent(ArgValue(h.args[1], st.env, h.i), selector,
                               [j \in 1..(Len(h.args) - 2) |->
                                   ArgValue(h.args[j + 2], st.env, h.i)])
         IN  RunObjc(Tail(steps), next)

\* The bridge functions the single caller uses.
ObjcCalls ==
    {"nsstring_create_with_bytes", "nsmutablearray_create", "nsmutablearray_create_from",
     "nsmutabledictionary_create", "nsdictionary_create", "nsmutabledictionary_set",
     "nsdictionary_get", "nsmutablearray_add_batch", "objc_add_subviews_batch",
     "autorelease_pool_push", "autorelease_pool_pop"}

\* The values the caller passes for a parameter: live objects of the class
\* the function is documented to take, C arrays of n different live objects,
\* and n for their length.
ParamValues(p, n, heap, pools) ==
    LET Live(kinds) == {Val("id", o) : o \in {q \in 1..MaxHeap : heap[q].rc > 0 /\ heap[q].kind \in kinds}}
        Plain == Live({"NSObject", "NSView"})
    IN  CASE p \in {"objects", "children", "keys", "values"} ->
                 {Val("array", s) : s \in {x \in [1..n -> Plain] :
                                               \A i, j \in 1..n : x[i] = x[j] => i = j}}
          [] p = "count" -> {Val("ulong", n)}
          [] p \in {"capacity", "byte_len"} -> {Val("ulong", MaxBatch)}
          [] p = "bytes" -> {Val("cstr", 1)}
          [] p = "marray" -> Live({"NSMutableArray"})
          [] p = "mdict" -> Live({"NSMutableDictionary"})
          [] p = "dict" -> Live({"NSDictionary", "NSMutableDictionary"})
          [] p = "parent" -> Live({"NSView"})
          [] p \in {"key", "value"} -> Plain
          [] p = "pool" -> IF Len(pools) > 1 THEN {Val("id", pools[Len(pools)].id)} ELSE {}

\* The argument lists of one function.
RECURSIVE ArgTuples(_, _, _, _)
ArgTuples(params, n, heap, pools) ==
    IF params = <<>> THEN {<<>>}
    ELSE {<<x>> \o r : x \in ParamValues(Head(params), n, heap, pools),
                       r \in ArgTuples(Tail(params), n, heap, pools)}

\* The calls the caller makes: pools are popped innermost first and
\* dictionary keys are distinct (ParamValues), and the bounds hold.
Allowed(fn, env) ==
    LET free == Cardinality({o \in 1..MaxHeap : h_heap[o].kind = ""})
        n == IF "count" \in DOMAIN env THEN env["count"].v ELSE 0
    IN  CASE fn \in {"nsstring_create_with_bytes", "nsmutablearray_create",
                     "nsmutabledictionary_create"} -> free >= 1
          [] fn = "nsmutablearray_create_from" -> free >= 2
          [] fn = "autorelease_pool_push" -> free >= 1 /\ Len(h_pools) <= MaxNest
          [] fn = "nsdictionary_create" -> free >= 1
          [] fn = "nsmutabledictionary_set" ->
                 \/ env["key"].v \in {h_heap[env["mdict"].v].keys[i] :
                                         i \in 1..Len(h_heap[env["mdict"].v].keys)}
                 \/ Len(h_heap[env["mdict"].v].keys) < MaxBatch
          [] fn = "nsmutablearray_add_batch" ->
                 Len(h_heap[env["marray"].v].items) + n <= MaxBatch
          [] fn = "objc_add_subviews_batch" ->
                 Len(h_heap[env["parent"].v].items) + n <= MaxBatch
          [] OTHER -> TRUE

\* #ifdef __APPLE__ / #ifdef __ANDROID__: a build has one of the two sections.
Target ==
    /\ k_platform = ""
    /\ k_platform' \in {"apple", "android"}
    /\ UNCHANGED <<k_calls, k_op, k_log, k_ret, k_entry, k_drained,
                   h_heap, h_pools, h_ready, j_depth, j_aborted>>

\* The caller calls one Objective-C function of the file and gets its result.
ObjcCall ==
    /\ k_platform = "apple"
    /\ k_calls < MaxCollCalls
    /\ k_calls' = k_calls + 1
    /\ \E f \in CollectionFunctions :
         /\ f.name \in ObjcCalls
         /\ \E n \in (IF \E i \in 1..Len(f.params) : f.params[i] = "count"
                        THEN 0..MaxBatch ELSE {0}) :
            \E a \in ArgTuples(f.params, n, h_heap, h_pools) :
              \E env \in {[p \in {f.params[i] : i \in 1..Len(f.params)} |->
                               a[CHOOSE i \in 1..Len(f.params) : f.params[i] = p]]} :
                /\ Allowed(f.name, env)
                /\ \E st \in {RunObjc(Expand(f.steps, n),
                                       [heap |-> h_heap, pools |-> h_pools,
                                        drained |-> <<>>, env |-> env, ready |-> h_ready,
                                        ret |-> NoValue, log |-> <<>>])} :
                     /\ k_op' = [fn |-> f.name, args |-> env]
                     /\ k_log' = st.log
                     /\ k_ret' = st.ret
                     /\ k_drained' = st.drained
                     /\ h_heap' = st.heap
                     /\ h_pools' = st.pools
                     /\ h_ready' = st.ready
    /\ UNCHANGED <<k_platform, k_entry, j_depth, j_aborted>>

\* A statement of a JNI function: a call through JNIEnv, a test of a local
\* with the statements of its branch, a loop over 0..count-1, a return.
Jni(op, f, args, dst, body) == [op |-> op, f |-> f, args |-> args, dst |-> dst, body |-> body]

PopAndReturn_NoPop(value) == <<Jni("return", "", value, "", <<>>)>>

\* { (*env)->PopLocalFrame(env, NULL); return value; }: the exit taken when a
\* lookup or an allocation failed inside a pushed frame
PopAndReturn(value) ==
    <<Jni("call", "PopLocalFrame", <<K("NULL")>>, "", <<>>),
      Jni("return", "", value, "", <<>>)>>

\* lines 507-718: the JNI functions of the file that create local references
\* in a loop, and the two frame helpers, each as its statements
JniFunctions ==
    {
      \* lines 507-524: jni_object_array_create
      [name   |-> "jni_object_array_create",
       params |-> <<"element_class_name", "objects", "count">>,
       body   |-> <<Jni("call", "FindClass", <<V("element_class_name")>>, "element_class", <<>>),
                    Jni("ifnull", "", <<V("element_class")>>, "",
                        <<Jni("return", "", <<K("NULL")>>, "", <<>>)>>),
                    Jni("call", "NewObjectArray", <<V("count"), V("element_class"), K("NULL")>>,
                        "arr", <<>>),
                    Jni("ifnull", "", <<V("arr")>>, "",
                        <<Jni("call", "DeleteLocalRef", <<V("element_class")>>, "", <<>>),
                          Jni("return", "", <<K("NULL")>>, "", <<>>)>>),
                    Jni("for", "", <<>>, "",
                        <<Jni("call", "SetObjectArrayElement",
                              <<V("arr"), Index, At("objects")>>, "", <<>>)>>),
                    Jni("call", "DeleteLocalRef", <<V("element_class")>>, "", <<>>),
                    Jni("return", "", <<V("arr")>>, "", <<>>)>>],
      \* lines 548-567: jni_arraylist_create
      [name   |-> "jni_arraylist_create",
       params |-> <<"objects", "count">>,
       body   |-> <<Jni("call", "PushLocalFrame", <<K("count + 8")>>, "pushed", <<>>),
                    Jni("ifneg", "", <<V("pushed")>>, "",
                        <<Jni("return", "", <<K("NULL")>>, "", <<>>)>>),
                    Jni("call", "FindClass", <<K("java/util/ArrayList")>>, "cls", <<>>),
                    Jni("ifnull", "", <<V("cls")>>, "",
                        PopAndReturn(<<K("NULL")>>)),
                    Jni("call", "GetMethodID", <<V("cls"), K("<init>"), K("(I)V")>>, "ctor", <<>>),
                    Jni("call", "GetMethodID",
                        <<V("cls"), K("add"), K("(Ljava/lang/Object;)Z")>>, "add", <<>>),
                    Jni("call", "NewObject", <<V("cls"), V("ctor"), V("count")>>, "list", <<>>),
                    Jni("ifnull", "", <<V("list")>>, "",
                        PopAndReturn(<<K("NULL")>>)),
                    Jni("for", "", <<>>, "",
                        <<Jni("call", "CallBooleanMethod",
                              <<V("list"), V("add"), At("objects")>>, "", <<>>)>>),
                    Jni("call", "PopLocalFrame", <<V("list")>>, "popped", <<>>),
                    Jni("return", "", <<V("popped")>>, "", <<>>)>>],
      \* lines 625-642: jni_viewgroup_add_views_batch
      [name   |-> "jni_viewgroup_add_views_batch",
       params |-> <<"view_group", "children", "count">>,
       body   |-> <<Jni("call", "PushLocalFrame", <<K("count + 4")>>, "pushed", <<>>),
                    Jni("ifneg", "", <<V("pushed")>>, "",
                        <<Jni("return", "", <<>>, "", <<>>)>>),
                    Jni("call", "FindClass", <<K("android/view/ViewGroup")>>, "cls", <<>>),
                    Jni("ifnull", "", <<V("cls")>>, "",
                        PopAndReturn(<<>>)),
                    Jni("call", "GetMethodID",
                        <<V("cls"), K("addView"), K("(Landroid/view/View;)V")>>, "addView", <<>>),
                    Jni("for", "", <<>>, "",
                        <<Jni("call", "CallVoidMethod",
                              <<V("view_group"), V("addView"), At("children")>>, "", <<>>)>>),
                    Jni("call", "PopLocalFrame", <<K("NULL")>>, "", <<>>)>>],
      \* lines 677-679: jni_push_local_frame
      [name   |-> "jni_push_local_frame",
       params |-> <<"capacity">>,
       body   |-> <<Jni("call", "PushLocalFrame", <<V("capacity")>>, "pushed", <<>>),
                    Jni("return", "", <<V("pushed")>>, "", <<>>)>>],
      \* lines 684-686: jni_pop_local_frame
      [name   |-> "jni_pop_local_frame",
       params |-> <<"result">>,
       body   |-> <<Jni("call", "PopLocalFrame", <<V("result")>>, "popped", <<>>),
                    Jni("return", "", <<V("popped")>>, "", <<>>)>>],
      \* lines 696-718: jni_hashmap_create_string_string
      [name   |-> "jni_hashmap_create_string_string",
       params |-> <<"keys", "values", "count">>,
       body   |-> <<Jni("call", "PushLocalFrame", <<K("count * 2 + 8")>>, "pushed", <<>>),
                    Jni("ifneg", "", <<V("pushed")>>, "",
                        <<Jni("return", "", <<K("NULL")>>, "", <<>>)>>),
                    Jni("call", "FindClass", <<K("java/util/HashMap")>>, "cls", <<>>),
                    Jni("call", "GetMethodID", <<V("cls"), K("<init>"), K("(I)V")>>, "ctor", <<>>),
                    Jni("call", "GetMethodID",
                        <<V("cls"), K("put"),
                          K("(Ljava/lang/Object;Ljava/lang/Object;)Ljava/lang/Object;")>>,
                        "put", <<>>),
                    Jni("call", "NewObject",
                        <<V("cls"), V("ctor"), K("count * 4 / 3 + 1")>>, "map", <<>>),
                    Jni("ifnull", "", <<V("map")>>, "",
                        PopAndReturn(<<K("NULL")>>)),
                    Jni("for", "", <<>>, "",
                        <<Jni("call", "NewStringUTF", <<At("keys")>>, "jkey", <<>>),
                          Jni("call", "NewStringUTF", <<At("values")>>, "jval", <<>>),
                          Jni("call", "CallObjectMethod",
                              <<V("map"), V("put"), V("jkey"), V("jval")>>, "", <<>>)>>),
                    Jni("call", "PopLocalFrame", <<V("map")>>, "popped", <<>>),
                    Jni("return", "", <<V("popped")>>, "", <<>>)>>]
    }

\* What the JVM does with one call through JNIEnv.  `out` is what the JVM's
\* state makes of the calls that can fail: PushLocalFrame (out of memory),
\* FindClass (class not found), NewObject and NewObjectArray (out of memory).
\* A call given a null class or method ID has undefined behaviour: the JVM
\* aborts the process, or the call fails and returns NULL.
JNIEnv(st, f, a, out) ==
    LET Same == [depth |-> st.depth, aborted |-> FALSE]
        Undefined == IF out.undefined = "abort"
                         THEN [depth |-> st.depth, aborted |-> TRUE, res |-> Nil]
                         ELSE Same @@ [res |-> Nil]
    IN  CASE f = "PushLocalFrame" ->
                 IF out.push THEN [Same EXCEPT !.depth = @ + 1] @@ [res |-> Val("jint", 0)]
                 ELSE Same @@ [res |-> Val("jint", -1)]
          [] f = "PopLocalFrame" -> [Same EXCEPT !.depth = @ - 1] @@ [res |-> a[1]]
          [] f = "FindClass" ->
                 Same @@ [res |-> IF out.find THEN Val("jclass", a[1].v) ELSE Nil]
          [] f = "GetMethodID" ->
                 IF a[1] = Nil THEN Undefined ELSE Same @@ [res |-> Val("jmethodID", a[2].v)]
          [] f = "NewObject" ->
                 IF a[1] = Nil \/ a[2] = Nil THEN Undefined
                 ELSE Same @@ [res |-> IF out.new THEN Val("jobject", a[1].v) ELSE Nil]
          [] f = "NewObjectArray" ->
                 IF a[2] = Nil THEN Undefined
                 ELSE Same @@ [res |-> IF out.new THEN Val("jobjectArray", a[2].v) ELSE Nil]
          [] f = "NewStringUTF" -> Same @@ [res |-> Val("jstring", a[1].v)]
          [] OTHER -> Same @@ [res |-> NoValue]

\* What the JVM can make of the calls of one bridge call: the push fails;
\* the push succeeds and the class is not found (a later call with the null
\* class then aborts the process or fails); the class is found and the
\* allocation fails; all succeed.
JvmOutcomes ==
    {[push |-> FALSE, find |-> TRUE, new |-> TRUE, undefined |-> "abort"],
     [push |-> TRUE, find |-> FALSE, new |-> TRUE, undefined |-> "abort"],
     [push |-> TRUE, find |-> FALSE, new |-> TRUE, undefined |-> "null"],
     [push |-> TRUE, find |-> TRUE, new |-> FALSE, undefined |-> "abort"],
     [push |-> TRUE, find |-> TRUE, new |-> TRUE, undefined |-> "abort"]}

\* One call of a JNI function of the file: its statements in order until it
\* returns or the process is gone.
RECURSIVE RunJni(_, _, _)
RunJni(body, st, out) ==
    IF body = <<>> \/ st.returned \/ st.aborted THEN st
    ELSE LET h == Head(body)
             Bind(env, var, val) ==
                 [x \in DOMAIN env \cup {var} |-> IF x = var THEN val ELSE env[x]]
             args == [j \in 1..Len(h.args) |-> ArgValue(h.args[j], st.env, st.i)]
             Called(a, r) ==
                 [st EXCEPT !.depth = r.depth, !.aborted = r.aborted,
                            !.env = IF h.dst = "" THEN @ ELSE Bind(@, h.dst, r.res),
                            !.log = Append(@, [f |-> h.f, args |-> a, res |-> r.res])]
             RECURSIVE Loop(_, _)
             Loop(s, i) ==
                 IF i >= st.env["count"].v THEN [s EXCEPT !.i = 0]
                 ELSE Loop(RunJni(h.body, [s EXCEPT !.i = i], out), i + 1)
             next ==
                 CASE h.op = "call" -> Called(args, JNIEnv(st, h.f, args, out))
                   [] h.op = "ifneg" ->
                          IF args[1].v < 0 THEN RunJni(h.body, st, out) ELSE st
                   [] h.op = "ifnull" ->
                          IF args[1] = Nil THEN RunJni(h.body, st, out) ELSE st
                   [] h.op = "for" -> Loop(st, 0)
                   [] h.op = "return" ->
                          [st EXCEPT !.returned = TRUE,
                                     !.ret = IF args = <<>> THEN NoValue ELSE args[1]]
         IN  RunJni(Tail(body), next, out)

\* The caller calls one JNI function of the file, with arrays of `count`
\* different objects; the JVM decides what the calls that can fail do.
JniCall ==
    /\ k_platform = "android"
    /\ ~j_aborted
    /\ k_calls < MaxCollCalls
    /\ k_calls' = k_calls + 1
    /\ \E f \in JniFunctions :
         \E n \in (IF f.name = "jni_pop_local_frame" THEN {0} ELSE 0..MaxBatch) :
         \E xs \in {[i \in 1..n |-> Val("ptr", i)]}, out \in JvmOutcomes :
           \E env \in {[p \in {f.params[i] : i \in 1..Len(f.params)} |->
                          CASE p \in {"count", "capacity"} -> Val("jint", n)
                            [] p \in {"objects", "children", "keys", "values"} -> Val("array", xs)
                            [] p = "element_class_name" -> Val("cstr", "android/view/View")
                            [] p = "view_group" -> Val("ptr", 1)
                            [] p = "result" -> Nil]} :
             /\ f.name = "jni_push_local_frame" => j_depth < MaxNest
             /\ f.name = "jni_pop_local_frame" => j_depth > 0
             /\ \E st \in {RunJni(f.body,
                                  [env |-> env, depth |-> j_depth, aborted |-> FALSE,
                                   returned |-> FALSE, ret |-> NoValue, log |-> <<>>, i |-> 0],
                                  out)} :
                  /\ k_op' = [fn |-> f.name, args |-> env]
                  /\ k_log' = st.log
                  /\ k_ret' = st.ret
                  /\ k_entry' = j_depth
                  /\ j_depth' = st.depth
                  /\ j_aborted' = st.aborted
    /\ UNCHANGED <<k_platform, k_drained, h_heap, h_pools, h_ready>>

NoCall == [fn |-> "", args |-> <<>>]

CollInit ==
    /\ k_platform = ""
    /\ k_calls = 0
    /\ k_op = NoCall
    /\ k_log = <<>>
    /\ k_ret = NoValue
    /\ k_entry = 0
    /\ k_drained = <<>>
    \* the application's objects: a view it owns, and an object it has
    \* autoreleased into the event loop's pool
    /\ h_heap = [o \in 1..MaxHeap |->
                    CASE o = 1 -> [NoObject EXCEPT !.kind = "NSView", !.rc = 1]
                      [] o = 2 -> [NoObject EXCEPT !.kind = "NSObject", !.rc = 1]
                      [] OTHER -> NoObject]
    /\ h_pools = <<[RootPool EXCEPT !.pending = <<2>>]>>
    /\ h_ready = FALSE
    /\ j_depth = 0
    /\ j_aborted = FALSE

NextColl == Target \/ ObjcCall \/ JniCall

(***************************************************************************)
(* Specifications                                                          *)
(***************************************************************************)
Init == AsyncInit /\ AbiInit /\ SelInit /\ EhInit /\ CollInit

Next ==
    \/ NextAsync /\ UNCHANGED <<bvars, svars, evars, kvars>>
    \/ NextAbi /\ UNCHANGED <<avars, svars, evars, kvars>>
    \/ NextSel /\ UNCHANGED <<avars, bvars, evars, kvars>>
    \/ NextEh /\ UNCHANGED <<avars, bvars, svars, kvars>>
    \/ NextColl /\ UNCHANGED <<avars, bvars, svars, evars>>

Spec == Init /\ [][Next]_vars

\* Each component on its own.
SpecAsync == Init /\ [][NextAsync /\ UNCHANGED <<bvars, svars, evars, kvars>>]_vars

SpecAbi == Init /\ [][NextAbi /\ UNCHANGED <<avars, svars, evars, kvars>>]_vars

SpecSel == Init /\ [][NextSel /\ UNCHANGED <<avars, bvars, evars, kvars>>]_vars

SpecEh == Init /\ [][NextEh /\ UNCHANGED <<avars, bvars, svars, kvars>>]_vars

SpecColl == Init /\ [][NextColl /\ UNCHANGED <<avars, bvars, svars, evars>>]_vars

SentCached(t) == t_sel[t].var \in CachedVars

\* The selector string ensure_selectors registers for a cache variable.
NameOfVar(var) ==
    LET i == CHOOSE j \in 1..Len(ensure_selectors.stores) :
                 ensure_selectors.stores[j].var = var
    IN  ensure_selectors.stores[i].name

(***************************************************************************)
(* C2.  Selector resolution is idempotent: all resolutions of one selector *)
(* name, sequential or interleaved across threads, return the same token.  *)
(* Here: two calls that are in progress and read the same cache variable   *)
(* for a send have read the same token.                                    *)
(***************************************************************************)
C2_SameToken ==
    \A t \in Threads, u \in Threads :
        (SentCached(t) /\ t_sel[u].var = t_sel[t].var) => t_sel[u].tok = t_sel[t].tok

\* The other half of C2: a cache entry, once set to a token, is never reset
\* to zero and never changes to another token; the token it holds is the one
\* the host returns for the entry's name.
C2_CacheStable ==
    /\ [](\A v \in CachedVars : cache[v] \in {NullSel, sel_registerName(NameOfVar(v))})
    /\ [][\A v \in CachedVars : cache[v] # NullSel => cache'[v] = cache[v]]_vars

(***************************************************************************)
(* C3.  Concurrent use of the selector cache is safe: a thread that has    *)
(* returned from ensure_selectors finds every cached selector it uses      *)
(* already written; no message is sent with a cache entry that is still 0. *)
(***************************************************************************)
C3_NoSendBeforeWrite ==
    \A t \in Threads : SentCached(t) => t_sel[t].tok # NullSel

EhCalled == e_last.T # 0

InCall(name) == b_pc # "idle" /\ b_op.fn = name

\* The caller has just returned from bridge function `name`.
Returned(name) == b_pc = "returned" /\ b_op.fn = name

\* The register frame of the call's (first) objc_msgSend invocation.
Frame == b_frames[1]

Dbl(i) == Val("double", i)

(***************************************************************************)
(* C5 as stated.  For a call mixing one pointer argument and one double    *)
(* (objc_send_id_1d_ret_id, nsfont_named) the pointer arrives at integer   *)
(* slot 0 and the double at floating-point slot 0.                         *)
(***************************************************************************)
C5_PointerInSlot0 ==
    /\ InCall("objc_send_id_1d_ret_id") =>
          /\ Slot(Frame.x, 0) = b_op.args[3]
          /\ Slot(Frame.d, 0) = b_op.args[4]
    /\ InCall("nsfont_named") =>
          /\ Slot(Frame.x, 0) = b_op.args[1]
          /\ Slot(Frame.d, 0) = b_op.args[2]

(***************************************************************************)
(* C5 amended.  The pointer arrives unchanged at integer slot 2 (slots 0   *)
(* and 1 hold the receiver and the selector) and the double arrives        *)
(* unchanged at floating-point slot 0, not slot 1: the two register files  *)
(* advance independently.                                                  *)
(***************************************************************************)
C5_PointerInSlot2 ==
    /\ InCall("objc_send_id_1d_ret_id") =>
          /\ Slot(Frame.x, 0) = b_op.args[1]
          /\ Slot(Frame.x, 1) = b_op.args[2]
          /\ Slot(Frame.x, 2) = b_op.args[3]
          /\ Slot(Frame.d, 0) = b_op.args[4]
          /\ Slot(Frame.d, 1) = Unwritten
          /\ Slot(Frame.x, 3) = Unwritten
    /\ InCall("nsfont_named") =>
          /\ Slot(Frame.x, 0) = objc_getClass("NSFont")
          /\ Slot(Frame.x, 1) = sel_registerName("fontWithName:size:")
          /\ Slot(Frame.x, 2) = b_op.args[1]
          /\ Slot(Frame.d, 0) = b_op.args[2]
          /\ Slot(Frame.d, 1) = Unwritten
          /\ Slot(Frame.x, 3) = Unwritten

\* objc_send_id_1d_ret_id was called with a receiver other than its pointer
\* argument, and has returned.
C5_Witness ==
    /\ Returned("objc_send_id_1d_ret_id")
    /\ b_op.args[1] = Val("id", 1)
    /\ Slot(Frame.x, 2) = Val("id", 2)
    /\ Slot(Frame.d, 0) = Dbl(3)

(***************************************************************************)
(* C6.  An HFA argument of N doubles occupies N consecutive floating-point *)
(* slots as one block: in objc_send_rect and                               *)
(* objc_send_rect_ulong_ulong_bool the rectangle's origin.x, origin.y,     *)
(* size.width, size.height are in float slots 0..3 in that order; the      *)
(* integer arguments a, b, c that follow are in the integer slots after    *)
(* receiver and selector (2, 3, 4), left to right, and take no float slot. *)
(***************************************************************************)
RectInD0toD3(rect) ==
    /\ Slot(Frame.d, 0) = rect.origin.x
    /\ Slot(Frame.d, 1) = rect.origin.y
    /\ Slot(Frame.d, 2) = rect.size.width
    /\ Slot(Frame.d, 3) = rect.size.height
    /\ \A n \in 4..(NumRegs - 1) : Slot(Frame.d, n) = Unwritten

C6_RectBlock ==
    /\ InCall("objc_send_rect") =>
          /\ RectInD0toD3(b_op.args[3])
          /\ Slot(Frame.x, 0) = b_op.args[1]
          /\ Slot(Frame.x, 1) = b_op.args[2]
          /\ \A n \in 2..(NumRegs - 1) : Slot(Frame.x, n) = Unwritten
          /\ Frame.stack = <<>>
    /\ InCall("objc_send_rect_ulong_ulong_bool") =>
          /\ RectInD0toD3(b_op.args[3])
          /\ Slot(Frame.x, 0) = b_op.args[1]
          /\ Slot(Frame.x, 1) = b_op.args[2]
          /\ Slot(Frame.x, 2) = b_op.args[4]
          /\ Slot(Frame.x, 3) = b_op.args[5]
          /\ Slot(Frame.x, 4) = b_op.args[6]
          /\ \A n \in 5..(NumRegs - 1) : Slot(Frame.x, n) = Unwritten
          /\ Frame.stack = <<>>

\* objc_send_rect_ulong_ulong_bool was called with a rectangle of four
\* different fields and a # b.
C6_Witness ==
    /\ InCall("objc_send_rect_ulong_ulong_bool")
    /\ SubSeq(Frame.d, 1, 4) = <<Dbl(1), Dbl(2), Dbl(3), Dbl(4)>>
    /\ Slot(Frame.x, 2) = Val("ulong", 0)
    /\ Slot(Frame.x, 3) = Val("ulong", 1)
    /\ Slot(Frame.x, 4) = Val("int", 1)

(***************************************************************************)
(* C7.  An HFA return of N fields is decoded from floating-point slots     *)
(* 0..N-1 in field order: when the target returns (v0,v1,v2,v3),           *)
(* objc_send_ret_rect yields origin.x=v0, origin.y=v1, size.width=v2,      *)
(* size.height=v3; when it returns (v0,v1), objc_send_ret_point yields     *)
(* x=v0, y=v1 and objc_send_ret_size yields width=v0, height=v1.           *)
(***************************************************************************)
C7_HfaReturn ==
    /\ Returned("objc_send_ret_rect") =>
          /\ b_result.origin.x = Slot(b_out.d, 0)
          /\ b_result.origin.y = Slot(b_out.d, 1)
          /\ b_result.size.width = Slot(b_out.d, 2)
          /\ b_result.size.height = Slot(b_out.d, 3)
    /\ Returned("objc_send_ret_point") =>
          /\ b_result.x = Slot(b_out.d, 0)
          /\ b_result.y = Slot(b_out.d, 1)
    /\ Returned("objc_send_ret_size") =>
          /\ b_result.width = Slot(b_out.d, 0)
          /\ b_result.height = Slot(b_out.d, 1)

\* The target returned (1, 2, 3, 4) and objc_send_ret_rect yielded four
\* different fields.
C7_Witness ==
    /\ Returned("objc_send_ret_rect")
    /\ SubSeq(b_out.d, 1, 4) = <<Dbl(1), Dbl(2), Dbl(3), Dbl(4)>>
    /\ b_result = [origin |-> [x |-> Dbl(1), y |-> Dbl(2)],
                   size |-> [width |-> Dbl(3), height |-> Dbl(4)]]

(***************************************************************************)
(* C8.  Every helper that embeds a selector calls the dispatch primitive   *)
(* through a shape that matches the selector's: the number of arguments    *)
(* after receiver and selector equals the number of colons of the selector *)
(* string, and the number of double parameters of the cast equals the      *)
(* number of floating-point parameters the selector takes (4 for the       *)
(* RGBA/SRGBA/HSBA colour factories, 2 for colorWithWhite:alpha: and the   *)
(* ...OfSize:weight: font factories, 1 for systemFontOfSize:,              *)
(* boldSystemFontOfSize: and fontWithName:size:), so that no               *)
(* floating-point slot the target reads is left unwritten.  The colon      *)
(* count also holds at every send of collection_bridge.c.                  *)
(***************************************************************************)
RECURSIVE Colons(_, _)
Colons(s, i) ==
    IF i > Len(s) THEN 0
    ELSE (IF SubSeq(s, i, i) = ":" THEN 1 ELSE 0) + Colons(s, i + 1)

Doubles(cast) == Len(SelectSeq(cast, LAMBDA ty : ty = "double"))

C8_SelectorDoubles(sel) ==
    CASE sel \in {"colorWithRed:green:blue:alpha:", "colorWithSRGBRed:green:blue:alpha:",
                  "colorWithHue:saturation:brightness:alpha:"} -> 4
      [] sel \in {"colorWithWhite:alpha:", "systemFontOfSize:weight:",
                  "monospacedSystemFontOfSize:weight:",
                  "monospacedDigitSystemFontOfSize:weight:"} -> 2
      [] sel \in {"systemFontOfSize:", "boldSystemFontOfSize:", "fontWithName:size:"} -> 1
      [] OTHER -> 0

\* The selector string a send of a collection_bridge.c function passes.
SiteName(f, st) ==
    IF st.var \in CachedVars THEN NameOfVar(st.var)
    ELSE LET i == CHOOSE j \in 1..Len(f.steps) :
                      f.steps[j].op = "sel_registerName" /\ f.steps[j].var = st.var
         IN  f.steps[i].s

\* Every send of collection_bridge.c passes as many arguments after receiver
\* and selector as its selector string has colons.
CollectionSendsMatch ==
    \A f \in CollectionFunctions :
        \A i \in 1..Len(f.steps) :
            f.steps[i].op \in {"objc_msgSend", "for"} =>
                Len(f.steps[i].cast) - 2 = Colons(SiteName(f, f.steps[i]), 1)

C8_ShapeMatches ==
    /\ (b_pc # "idle" /\ b_op.fn \in {w.name : w \in Helpers}) =>
          LET w == ByName(b_op.fn)
              sel == Slot(Frame.x, 1).v
          IN  /\ Slot(Frame.x, 1).t = "SEL"
              /\ Len(w.cast) - 2 = Colons(sel, 1)
              /\ Len(w.args) = Len(w.cast)
              /\ Doubles(w.cast) = C8_SelectorDoubles(sel)
              /\ \A n \in 0..(NumRegs - 1) :
                    n < C8_SelectorDoubles(sel) => Slot(Frame.d, n).t = "double"
    /\ CollectionSendsMatch

\* nsfont_system_weight(1, 2) is inside the dispatch primitive with size in
\* float slot 0 and weight in float slot 1.
C8_Witness ==
    /\ b_pc = "dispatched"
    /\ b_op.fn = "nsfont_system_weight"
    /\ Slot(Frame.d, 0) = Dbl(1)
    /\ Slot(Frame.d, 1) = Dbl(2)

(***************************************************************************)
(* C9.  nscolor_rgba applies no transformation: nscolor_rgba(r,g,b,a)      *)
(* performs the dispatch of objc_send_4d_ret_id(NSColor class,             *)
(* "colorWithRed:green:blue:alpha:", r,g,b,a), with r,g,b,a unchanged in   *)
(* float slots 0,1,2,3 in that order, and returns what the target returns. *)
(***************************************************************************)
C9_RgbaNoTransformation ==
    InCall("nscolor_rgba") =>
        LET a == b_op.args
            direct == Run(objc_send_4d_ret_id,
                          <<objc_getClass("NSColor"),
                            sel_registerName("colorWithRed:green:blue:alpha:"),
                            a[1], a[2], a[3], a[4]>>)
        IN  /\ b_frames = direct.frames
            /\ b_castRet = direct.castRet
            /\ Slot(Frame.d, 0) = a[1]
            /\ Slot(Frame.d, 1) = a[2]
            /\ Slot(Frame.d, 2) = a[3]
            /\ Slot(Frame.d, 3) = a[4]
            /\ b_pc = "returned" => b_result = Slot(b_out.x, 0)

\* nscolor_rgba(1, 2, 3, 4) has returned an object.
C9_Witness ==
    /\ Returned("nscolor_rgba")
    /\ b_op.args = <<Dbl(1), Dbl(2), Dbl(3), Dbl(4)>>
    /\ b_result = Val("id", 1)

(***************************************************************************)
(* C10.  Every typed trampoline objc_send* is a pure pass-through: one     *)
(* call invokes the dispatch primitive exactly once, with the given        *)
(* receiver in integer slot 0 and the given selector in integer slot 1,    *)
(* makes no host lookup and sends no other message (no retain, release or  *)
(* autorelease), and returns the primitive's result unchanged.             *)
(***************************************************************************)
TrampolineNames == {w.name : w \in Trampolines \cup Aliases}

C10_PassThrough ==
    (b_pc # "idle" /\ b_op.fn \in TrampolineNames) =>
        /\ Len(b_frames) = 1
        /\ b_host = <<>>
        /\ Slot(Frame.x, 0) = b_op.args[1]
        /\ Slot(Frame.x, 1) = b_op.args[2]
        /\ b_pc = "returned" =>
              LET ret == ByName(b_op.fn).ret
              IN  /\ ret = "void" => b_result = NoValue
                  /\ IsIntegerClass(ret) => b_result = Slot(b_out.x, 0)
                  /\ IsFloatClass(ret) => b_result = Slot(b_out.d, 0)
                  /\ IsStruct(ret) =>
                        Flatten(ret, b_result) = SubSeq(b_out.d, 1, ScalarCount(ret))

\* objc_send_id_sel was called with two different selectors and has returned.
C10_Witness ==
    /\ Returned("objc_send_id_sel")
    /\ b_op.args[2] # b_op.args[4]
    /\ Len(b_frames) = 1

(***************************************************************************)
(* C19.  The backward-compatibility aliases are identical to the functions *)
(* they rename: objc_send_double(self, sel, x) performs exactly the        *)
(* dispatch of objc_send_1d(self, sel, x), objc_send_double_ret_id(self,   *)
(* sel, x) exactly the dispatch of objc_send_1d_ret_id(self, sel, x), and  *)
(* returns its result; each alias dispatches exactly once.                 *)
(***************************************************************************)
SameDispatch(w) ==
    LET direct == Run(w, b_op.args)
    IN  /\ b_frames = direct.frames
        /\ b_castRet = direct.castRet
        /\ b_host = direct.host
        /\ Len(b_frames) = 1
        /\ b_pc = "returned" =>
              b_result = (IF w.ret = "void" THEN NoValue ELSE ReadRet(direct.castRet, b_out))

C19_AliasesIdentical ==
    /\ InCall("objc_send_double") => SameDispatch(objc_send_1d)
    /\ InCall("objc_send_double_ret_id") => SameDispatch(objc_send_1d_ret_id)

\* objc_send_double_ret_id(self, sel, 3) has returned the object the target
\* returned.
C19_Witness ==
    /\ Returned("objc_send_double_ret_id")
    /\ b_op.args[3] = Dbl(3)
    /\ Slot(Frame.d, 0) = Dbl(3)
    /\ b_result = Val("id", 2)

(***************************************************************************)
(* C20.  The wrapper catalogue follows its naming convention: a wrapper    *)
(* named objc_send_{arg_types} without _ret_ returns void, a wrapper named *)
(* objc_send_{arg_types}_ret_{rtype} returns rtype, and plain objc_send    *)
(* returns id.                                                             *)
(***************************************************************************)
\* The position after the first "_ret_" in a name (0: the name has none).
RECURSIVE AfterRet(_, _)
AfterRet(name, i) ==
    IF i + 4 > Len(name) THEN 0
    ELSE IF SubSeq(name, i, i + 4) = "_ret_" THEN i + 5
    ELSE AfterRet(name, i + 1)

\* The C type of a type code of the naming convention (lines 39-44).
TypeOfCode(code) ==
    CASE code = "id"     -> "void*"
      [] code = "d"      -> "double"
      [] code = "double" -> "double"
      [] code = "bool"   -> "int"
      [] code = "long"   -> "long"
      [] code = "ulong"  -> "unsigned long"
      [] code = "sel"    -> "SEL"
      [] code = "rect"   -> "CGRect"
      [] code = "point"  -> "CGPoint"
      [] code = "size"   -> "CGSize"
      [] code = "cstr"   -> "const char*"
      [] OTHER           -> "?"

\* The return type the naming convention gives a wrapper name (lines 35-37).
ConventionRet(name) ==
    IF name = "objc_send" THEN "void*"
    ELSE IF AfterRet(name, 1) = 0 THEN "void"
    ELSE TypeOfCode(SubSeq(name, AfterRet(name, 1), Len(name)))

C20_NamingConvention ==
    (b_pc # "idle" /\ b_op.fn \in {w.name : w \in Trampolines}) =>
        ByName(b_op.fn).ret = ConventionRet(b_op.fn)

\* Number of calls of host function f the last bridge call made.
HostCalls(f) == Cardinality({i \in 1..Len(k_log) : k_log[i].f = f})

\* The last bridge call was `name` and has returned to the caller.
CallReturned(name) == k_op.fn = name /\ ~j_aborted

FramedFunctions ==
    {"jni_arraylist_create", "jni_viewgroup_add_views_batch",
     "jni_hashmap_create_string_string"}

(***************************************************************************)
(* C13. JNI local frames are balanced on every exit path of                *)
(* jni_arraylist_create, jni_viewgroup_add_views_batch and                 *)
(* jni_hashmap_create_string_string: a call that returns has called        *)
(* PushLocalFrame once, first; if that push succeeded it has called        *)
(* PopLocalFrame exactly once, if it failed not at all; the frame depth on *)
(* return is the depth on entry, also when FindClass or NewObject failed.  *)
(***************************************************************************)
C13_FramesBalanced ==
    \A name \in FramedFunctions :
        CallReturned(name) =>
            /\ HostCalls("PushLocalFrame") = 1
            /\ k_log[1].f = "PushLocalFrame"
            /\ HostCalls("PopLocalFrame") = (IF k_log[1].res.v = 0 THEN 1 ELSE 0)
            /\ j_depth = k_entry

\* jni_arraylist_create returned after NewObject failed inside its frame,
\* called from inside a frame the caller had pushed.
C13_Witness ==
    /\ CallReturned("jni_arraylist_create")
    /\ \E i \in 1..Len(k_log) : k_log[i].f = "NewObject" /\ k_log[i].res = Nil
    /\ HostCalls("PopLocalFrame") = 1
    /\ k_entry = 1
    /\ j_depth = 1

(***************************************************************************)
(* C14. jni_object_array_create pushes a local frame before it creates     *)
(* local references and pops it before returning, on every exit path.      *)
(***************************************************************************)
C14_ArrayCreateFramed ==
    CallReturned("jni_object_array_create") =>
        /\ k_log[1].f = "PushLocalFrame"
        /\ HostCalls("PopLocalFrame") = (IF k_log[1].res.v = 0 THEN 1 ELSE 0)

BatchFunctions ==
    {"nsmutablearray_add_batch", "objc_add_subviews_batch", "jni_viewgroup_add_views_batch"}

\* The host add calls the last bridge call made, in the order it made them.
AddCalls ==
    LET IsAdd(e) == \/ e.f = "CallVoidMethod"
                    \/ e.f = "objc_msgSend" /\ e.sel \in {"addObject:", "addSubview:"}
    IN  SelectSeq(k_log, IsAdd)

\* The last call issued exactly `count` add calls to the container it was
\* given, the i-th with element i of the array it was given.
AddsInOrder ==
    LET a == k_op.args
        jni == k_op.fn = "jni_viewgroup_add_views_batch"
        xs == IF k_op.fn = "nsmutablearray_add_batch" THEN a["objects"].v ELSE a["children"].v
        to == CASE k_op.fn = "nsmutablearray_add_batch" -> a["marray"]
                [] k_op.fn = "objc_add_subviews_batch" -> a["parent"]
                [] jni -> a["view_group"]
    IN  /\ Len(AddCalls) = a["count"].v
        /\ \A i \in 1..Len(AddCalls) :
              /\ (IF jni THEN AddCalls[i].args[1] ELSE AddCalls[i].recv) = to
              /\ AddCalls[i].args[Len(AddCalls[i].args)] = xs[i]

\* jni_viewgroup_add_views_batch got its local frame and its class.
FrameAndClass ==
    /\ k_log[1].f = "PushLocalFrame" /\ k_log[1].res.v = 0
    /\ \E i \in 1..Len(k_log) : k_log[i].f = "FindClass" /\ k_log[i].res # Nil

DictValue(d, key) ==
    LET o == h_heap[d.v]
        at == {i \in 1..Len(o.keys) : o.keys[i] = key.v}
    IN  IF at = {} THEN Nil ELSE Val("id", o.items[CHOOSE i \in at : TRUE])

\* The dictionary nsdictionary_create returned maps keys[i] to values[i].
CreatedMapsKeysToValues ==
    k_op.fn = "nsdictionary_create" =>
        \A i \in 1..k_op.args["count"].v :
            DictValue(k_ret, k_op.args["keys"].v[i]) = k_op.args["values"].v[i]

\* After nsmutabledictionary_set(d, key, value), d holds value for key.
SetStoresValue ==
    k_op.fn = "nsmutabledictionary_set" =>
        DictValue(k_op.args["mdict"], k_op.args["key"]) = k_op.args["value"]

(***************************************************************************)
(* C16. nsdictionary_create(keys, values, count) builds a dictionary that  *)
(* maps keys[i] to values[i] for every i < count, and the call             *)
(* nsdictionary_get(d, key) made after nsmutabledictionary_set(d, key,     *)
(* value) returns value.                                                   *)
(***************************************************************************)
C16_DictionaryMapping ==
    [][/\ CreatedMapsKeysToValues'
       /\ SetStoresValue'
       /\ (/\ k_op.fn = "nsmutabledictionary_set"
           /\ k_op'.fn = "nsdictionary_get"
           /\ k_op'.args["dict"] = k_op.args["mdict"]
           /\ k_op'.args["key"] = k_op.args["key"])
          => k_ret' = k_op.args["value"]]_vars

\* nsdictionary_get returned the value stored under a key that differs from it.
C16_Witness ==
    /\ k_op.fn = "nsdictionary_get"
    /\ k_ret # Nil
    /\ k_ret # k_op.args["key"]
    /\ DictValue(k_op.args["dict"], k_op.args["key"]) = k_ret

CreateFunctions ==
    {"nsstring_create_with_bytes", "nsmutablearray_create", "nsmutablearray_create_from",
     "nsmutabledictionary_create"}

\* The sends of the last call whose selector is one of sels.
Sends(sels) == SelectSeq(k_log, LAMBDA e : e.f = "objc_msgSend" /\ e.sel \in sels)

\* Number of releases the autorelease pools owe object o.
PendingReleases(o) ==
    Cardinality({ij \in (1..Len(h_pools)) \X (1..MaxHeap) :
                    /\ ij[2] <= Len(h_pools[ij[1]].pending)
                    /\ h_pools[ij[1]].pending[ij[2]] = o})

(***************************************************************************)
(* C11. Each of nsstring_create_with_bytes, nsmutablearray_create,         *)
(* nsmutablearray_create_from and nsmutabledictionary_create returns its   *)
(* result at net ownership +0: the call acquires one +1 reference, by      *)
(* alloc or by mutableCopy, to the object it returns, sends autorelease    *)
(* exactly once, to that object, and sends retain, release or autorelease  *)
(* to no other object; every reference to the result is one a pool will    *)
(* release.                                                                *)
(***************************************************************************)
C11_CreateNetZero ==
    \A name \in CreateFunctions :
        CallReturned(name) =>
            /\ Len(Sends({"alloc", "mutableCopy"})) = 1
            /\ Sends({"alloc", "mutableCopy"})[1].res = k_ret
            /\ Len(Sends({"autorelease"})) = 1
            /\ Sends({"autorelease"})[1].recv = k_ret
            /\ Sends({"retain", "release"}) = <<>>
            /\ h_heap[k_ret.v].rc = 1
            /\ PendingReleases(k_ret.v) = 1

\* nsmutablearray_create_from returned the mutable copy of a two-element
\* array, autoreleased into a pool the caller had pushed.
C11_Witness ==
    /\ CallReturned("nsmutablearray_create_from")
    /\ k_op.args["count"].v = MaxBatch
    /\ Len(h_pools) > 1
    /\ k_ret.v \in {h_pools[Len(h_pools)].pending[i] :
                       i \in 1..Len(h_pools[Len(h_pools)].pending)}
    /\ h_heap[k_ret.v].kind = "NSMutableArray"
    /\ Len(h_heap[k_ret.v].items) = MaxBatch

(***************************************************************************)
(* C12. Autorelease pools are scoped: when the caller pops the pool it     *)
(* pushed last, autorelease_pool_pop(pool) makes the pool release every    *)
(* object autoreleased since the matching push, once for each autorelease, *)
(* releases no object autoreleased before that push, and leaves the        *)
(* pending objects of every outer pool as they were.                       *)
(***************************************************************************)
C12_PoolsScoped ==
    [][k_op'.fn = "autorelease_pool_pop" =>
          /\ k_op'.args["pool"].v = h_pools[Len(h_pools)].id
          /\ k_drained' = h_pools[Len(h_pools)].pending
          /\ h_pools' = SubSeq(h_pools, 1, Len(h_pools) - 1)
          /\ h_heap'[k_op'.args["pool"].v] = NoObject]_vars

\* A pop released an object created since the push while the outer pool
\* still holds the object autoreleased before it.
C12_Witness ==
    /\ k_op.fn = "autorelease_pool_pop"
    /\ k_drained # <<>>
    /\ h_pools # <<>> /\ h_pools[1].pending # <<>>
    /\ \A i \in 1..Len(k_drained) : h_heap[k_drained[i]] = NoObject
    /\ \A i \in 1..Len(h_pools[1].pending) : h_heap[h_pools[1].pending[i]].rc > 0

(***************************************************************************)
(* C22. crystal_asyncify_switch initiates an unwind only when the asyncify *)
(* state is NORMAL: a switch call whose asyncify_get_state returned        *)
(* unwinding (1) or rewinding (2) does not call asyncify_start_unwind.     *)
(***************************************************************************)
C22_UnwindOnlyFromNormal ==
    (/\ a_op.fn = "crystal_asyncify_switch"
     /\ \E i \in 1..Len(a_trace) : a_trace[i].f = "asyncify_start_unwind")
        => a_op.entry = NORMAL

\* The state-changing helper calls i..i+3 are one suspend/resume cycle that
\* starts in the normal state.
CycleAt(i) ==
    /\ i + 3 <= Len(a_hist)
    /\ a_hist[i].entry = NORMAL
    /\ [j \in 1..4 |-> a_hist[i + j - 1].fn] =
           <<"crystal_asyncify_switch", "crystal_stop_unwind",
             "crystal_start_rewind", "crystal_asyncify_switch">>

(***************************************************************************)
(* C23. A suspend/resume cycle driven through the helper returns the       *)
(* asyncify state to normal: starting in normal, crystal_asyncify_switch,  *)
(* crystal_stop_unwind, crystal_start_rewind, crystal_asyncify_switch      *)
(* leave the state unwinding, normal, rewinding, normal, and issue exactly *)
(* one start_unwind, one stop_unwind, one start_rewind and one             *)
(* stop_rewind, in that order; crystal_get_state never changes the state.  *)
(***************************************************************************)
C23_CycleReturnsToNormal ==
    /\ a_op.fn = "crystal_get_state" =>
          asyncify_state = a_op.entry /\ StateChanging(a_trace) = <<>>
    /\ Len(a_hist) = Len(a_log)
    /\ \A i \in 1..Len(a_hist) :
          CycleAt(i) =>
              /\ [j \in 1..4 |-> a_hist[i + j - 1].exit] =
                     <<UNWINDING, NORMAL, REWINDING, NORMAL>>
              /\ [j \in 1..4 |-> a_log[i + j - 1].f] =
                     <<"asyncify_start_unwind", "asyncify_stop_unwind",
                       "asyncify_start_rewind", "asyncify_stop_rewind">>

\* A whole cycle has run, with a crystal_get_state call after it, and the
\* host is back in the normal state.
C23_Witness ==
    /\ CycleAt(1)
    /\ Len(a_hist) = 4
    /\ a_op.fn = "crystal_get_state"
    /\ asyncify_state = NORMAL

\* The register numbers of a bank that hold a value.
Written(bank) == {n \in 0..(NumRegs - 1) : Slot(bank, n) # Unwritten}

\* The register layout of a function-pointer cast: the x and d registers and
\* the number of stack slots its arguments occupy at entry to objc_msgSend,
\* and the registers its return value is read from.
RegisterLayout(cast, castRet) ==
    LET f   == Marshal(cast, [i \in 1..Len(cast) |-> CHOOSE v \in ValuesOf(cast[i]) : TRUE])
        out == CHOOSE o \in TargetReturns(castRet) : TRUE
    IN  [x |-> Written(f.x), d |-> Written(f.d), stack |-> Len(f.stack),
         retx |-> Written(out.x), retd |-> Written(out.d)]

\* The register layout of every trampoline, by name.
LayoutOf ==
    [n \in {w.name : w \in Trampolines} |->
        RegisterLayout(ByName(n).cast, ByName(n).castRet)]

\* The pairs of different trampolines with one register layout, and with one
\* function-pointer type.
SameLayout ==
    {p \in Trampolines \X Trampolines :
        p[1] # p[2] /\ LayoutOf[p[1].name] = LayoutOf[p[2].name]}

SameCast ==
    {p \in Trampolines \X Trampolines :
        /\ p[1] # p[2]
        /\ p[1].cast = p[2].cast
        /\ p[1].castRet = p[2].castRet}

\* The call in progress is a trampoline's and its target has returned.
TrampolineReturned ==
    /\ b_pc = "returned"
    /\ b_op.fn \in {w.name : w \in Trampolines}

\* The registers the call in progress wrote before objc_msgSend and read
\* after it.
ObservedLayout ==
    [x |-> Written(b_frames[1].x), d |-> Written(b_frames[1].d),
     stack |-> Len(b_frames[1].stack),
     retx |-> Written(b_out.x), retd |-> Written(b_out.d)]

(***************************************************************************)
(* C21 as stated.  No two trampolines other than the backward-             *)
(* compatibility aliases have the same register layout for their arguments *)
(* and the same register layout for their return value: the layout of a    *)
(* trampoline call is the layout of no other trampoline.                   *)
(***************************************************************************)
C21_OnePerRegisterLayout ==
    TrampolineReturned =>
        \A w \in Trampolines :
            LayoutOf[w.name] = ObservedLayout => w.name = b_op.fn

(***************************************************************************)
(* C21, amended.  No two trampolines other than the aliases cast           *)
(* objc_msgSend to the same function-pointer type (parameter types and     *)
(* return type); every trampoline call writes and reads exactly the        *)
(* registers of its cast's layout, and trampolines whose casts differ only *)
(* in types of one register class (objc_send_id, objc_send_long and        *)
(* objc_send_ulong, for one) have the same register layout.                *)
(***************************************************************************)
C21_OnePerCast ==
    /\ SameCast = {}
    /\ <<objc_send_id, objc_send_long>> \in SameLayout
    /\ <<objc_send_long, objc_send_ulong>> \in SameLayout
    /\ TrampolineReturned => ObservedLayout = LayoutOf[b_op.fn]

\* objc_send_ulong has returned from a call whose registers were laid out
\* exactly as those of a call of objc_send_long.
C21_Witness ==
    /\ TrampolineReturned
    /\ b_op.fn = "objc_send_ulong"
    /\ ObservedLayout = LayoutOf["objc_send_long"]

\* A send that passes one of the cache variables.
UsesCache(s) ==
    /\ s.op = "objc_msgSend"
    /\ \E i \in 1..Len(s.args) : s.args[i].k = "var" /\ s.args[i].n \in CachedVars

\* The exported functions with a path on which a cache variable is used and
\* ensure_selectors has not been called, in the function or in the one it
\* delegates to.
UsesBeforeEnsure ==
    {f.name : f \in {g \in CollectionFunctions :
        \E count \in 0..MaxCount :
            LET st == Expand(g.steps, count)
            IN  \E i \in 1..Len(st) :
                    /\ UsesCache(st[i])
                    /\ \A j \in 1..(i - 1) : st[j].op # "ensure_selectors"}}

\* The exported functions that use a cache variable.
CacheUsers ==
    {f.name : f \in {g \in CollectionFunctions :
        \E i \in 1..Len(Expand(g.steps, 1)) : UsesCache(Expand(g.steps, 1)[i])}}

\* At most one thread has ever called into the bridge.
SingleThreaded == Cardinality({t \in Threads : t_calls[t] > 0}) <= 1

\* Thread t is in a call that has returned from ensure_selectors.
EnsureReturned(t) ==
    /\ t_fn[t] # "none"
    /\ \E f \in Entrypoints :
          /\ f.name = t_fn[t]
          /\ \E i \in 1..Len(f.steps) : f.steps[i].op = "ensure_selectors"
    /\ \A i \in 1..Len(t_todo[t]) : t_todo[t][i].op # "ensure_selectors"

(***************************************************************************)
(* C24. In single-threaded use no collection-bridge function sends a       *)
(* message with an unresolved cached selector: every exported function     *)
(* that uses one of the 21 cache variables calls ensure_selectors,         *)
(* directly or through the function it delegates to, before its first use, *)
(* and after ensure_selectors returns all 21 variables are non-zero.       *)
(***************************************************************************)
C24_CachedSelectorsResolved ==
    /\ UsesBeforeEnsure = {}
    /\ Cardinality(CachedVars) = 21
    /\ {ensure_selectors.stores[i].var : i \in 1..Len(ensure_selectors.stores)} = CachedVars
    /\ SingleThreaded =>
          \A t \in Threads :
              /\ SentCached(t) => t_sel[t].tok = sel_registerName(NameOfVar(t_sel[t].var))
              /\ EnsureReturned(t) => \A v \in CachedVars : cache[v] # NullSel

\* The only thread is in the call that filled the cache, has returned from
\* ensure_selectors and has sent a message with a cached selector; and a
\* function that delegates is among those that use the cache.
C24_Witness ==
    /\ SingleThreaded
    /\ \E t \in Threads :
          /\ t_calls[t] = 1
          /\ EnsureReturned(t)
          /\ SentCached(t)
          /\ t_sel[t].tok # NullSel
    /\ "nsmutablearray_count" \in CacheUsers
    /\ "objc_add_subviews_batch" \notin CacheUsers

====
